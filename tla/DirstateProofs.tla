--------------------------- MODULE DirstateProofs ---------------------------
(***************************************************************************)
(* Proofs about Dirstate, for any files, contents, sizes and any length of *)
(* time: types, and which changed files may be taken for clean as long as  *)
(* users edit files between commands only.                                 *)
(*                                                                         *)
(* The argument: an entry vouches for its file (Vouches).  Whoever writes  *)
(* a file does so now, so no entry with an older time stamp can match it   *)
(* afterwards; entries with the time stamp "now" exist in memory only, and *)
(* as long as they do, _lastnormaltime is now.  A file patched then has    *)
(* the time stamp of its entry, but as long as that is _lastnormaltime     *)
(* nobody relies on it, and if the dirstate is written in this second, the *)
(* entry goes; if it is written later, or another file is marked later,    *)
(* the file is left behind, and nothing is claimed of it until it is       *)
(* written again.                                                          *)
(***************************************************************************)
EXTENDS Dirstate, TLAPS

\* Files of S that look like their entries are as the manifest p says.
Vouches(m, p, S) ==
    \A f \in S : m[f].mtime = wd[f].mtime /\ SameSize(m, f) => wd[f].data = p[f]

\* Nothing is from the future, and fresh entries are known as such.
Times ==
    /\ 1 <= now /\ last <= now
    /\ \A f \in File : /\ 1 <= wd[f].mtime /\ wd[f].mtime <= now
                       /\ map[f].mtime <= now
                       /\ map[f].mtime = now => last = now

\* What is stored is older than anything that will be written.
Settled(s) ==
    (\A f \in File : s.map[f].mtime < now) /\ Vouches(s.map, s.pl, File \ left)
Stores == Settled(disk) /\ Settled(backup)

\* Patched files have the time stamp of their entries, the last one given.
Fresh == \A f \in patched : wd[f].mtime = last /\ map[f].mtime = last

Flags ==
    /\ ~dirty => map = disk.map /\ pl = disk.pl /\ last = 0
    /\ op = "idle" => held \/ ~dirty
    /\ op \in {"idle", "open"} => todo = {}
    /\ tr => held
    /\ op \in {"open", "update"} => held
    /\ op = "fix" /\ changed # {} => held

Trusted == File \ (left \cup patched)

\* What is in memory, between commands and while a command marks files
Marks ==
    /\ op \in {"idle", "open"} => Vouches(map, pl, Trusted)
    /\ op = "fix" => /\ \A f \in todo : wd[f].data = pl[f]
                     /\ Vouches(map, pl, Trusted \ todo)
    /\ op \in {"fix", "open"} =>
           \A f \in File : IF f \in changed THEN wd[f].data = next[f] ELSE next[f] = pl[f]
    /\ op \in {"mark", "update"} => /\ \A f \in todo : wd[f].data = next[f]
                                    /\ Vouches(map, next, Trusted \ todo)

Inv == Times /\ Stores /\ Fresh /\ Flags /\ Marks

-----------------------------------------------------------------------------
(* Types                                                                   *)

\* Contents have a size of those that entries may have, and clearing the
\* time stamps of some entries gives entries (pack_dirstate).
LEMMA SizeType == \A c \in Content : Size[c] \in {Size[d] : d \in Content}
OBVIOUS

LEMMA DroppedType ==
    ASSUME NEW m \in [File -> Entry]
    PROVE  Dropped(m) \in [File -> Entry]
<1> SUFFICES ASSUME NEW f \in File
             PROVE  (IF m[f].mtime = now THEN [m[f] EXCEPT !.mtime = -1] ELSE m[f]) \in Entry
  BY DEF Dropped
<1>1. m[f] \in Entry
  OBVIOUS
<1> QED BY <1>1 DEF Entry

\* Writing out a typed map, at once or later (write).
LEMMA WriteTypes ==
    ASSUME TypeOK, NEW m \in [File -> Entry], NEW p \in Manifest
    PROVE  /\ WriteOut(m, p) => /\ map' \in [File -> Entry] /\ disk' \in Stored
                                /\ last' \in Time /\ dirty' \in BOOLEAN
           /\ WriteNone(map, pl) => /\ map' \in [File -> Entry] /\ disk' \in Stored
                                    /\ last' \in Time /\ dirty' \in BOOLEAN
           /\ WriteTr(m, p) => /\ map' \in [File -> Entry] /\ disk' \in Stored
                               /\ last' \in Time /\ dirty' \in BOOLEAN
                               /\ gen' \in BOOLEAN /\ backup' \in Stored
<1>1. Dropped(m) \in [File -> Entry] /\ Dropped(map) \in [File -> Entry]
  BY DroppedType DEF TypeOK
<1>2. 0 \in Time
  BY BoundAssumption DEF Time
<1>3. ASSUME NEW m1 \in [File -> Entry], Dropped(m1) \in [File -> Entry],
             NEW p1 \in Manifest, WriteOut(m1, p1)
      PROVE  /\ map' \in [File -> Entry] /\ disk' \in Stored
             /\ last' \in Time /\ dirty' \in BOOLEAN
  <2>1. [map |-> Dropped(m1), pl |-> p1] \in Stored
    BY <1>3 DEF Stored
  <2> QED BY <1>2, <1>3, <2>1 DEF WriteOut
<1>4. map \in [File -> Entry] /\ pl \in Manifest
  BY DEF TypeOK
<1>5. WriteOut(m, p) => /\ map' \in [File -> Entry] /\ disk' \in Stored
                        /\ last' \in Time /\ dirty' \in BOOLEAN
  BY <1>1, <1>3
<1>6. WriteNone(map, pl) => /\ map' \in [File -> Entry] /\ disk' \in Stored
                            /\ last' \in Time /\ dirty' \in BOOLEAN
  <2>1. WriteOut(map, pl) => /\ map' \in [File -> Entry] /\ disk' \in Stored
                             /\ last' \in Time /\ dirty' \in BOOLEAN
    BY <1>1, <1>3, <1>4
  <2> QED BY <2>1 DEF TypeOK, WriteNone
<1>7. WriteTr(m, p) => /\ map' \in [File -> Entry] /\ disk' \in Stored
                       /\ last' \in Time /\ dirty' \in BOOLEAN
                       /\ gen' \in BOOLEAN /\ backup' \in Stored
  BY <1>1, <1>2, <1>5 DEF TypeOK, WriteTr
<1> QED BY <1>5, <1>6, <1>7

LEMMA InitTypes == Init => TypeOK
<1> SUFFICES ASSUME Init PROVE TypeOK
  OBVIOUS
<1>1. 1 \in Time /\ 0 \in Time /\ -1 \in Time \cup {-1}
  BY BoundAssumption DEF Time
<1>2. map \in [File -> Entry]
  BY SizeType DEF Init, Entry, Manifest
<1> QED BY <1>1, <1>2 DEF Init, TypeOK, Stored, Manifest

\* The history is one of files.
LEMMA RiskTypes ==
    ASSUME TypeOK, NEW f \in File, NEW behind \in SUBSET File,
           LeavePatched \/ Marked(f, behind)
    PROVE  patched' \in SUBSET File /\ left' \in SUBSET File
BY DEF TypeOK, LeavePatched, Marked

LEMMA LeaveTypes ==
    ASSUME TypeOK, LeavePatched
    PROVE  patched' \in SUBSET File /\ left' \in SUBSET File
BY DEF TypeOK, LeavePatched

\* Types are preserved by commands ...
LEMMA CommandTypes ==
    ASSUME TypeOK,
           \/ Fixup \/ Commit \/ EndFix \/ OpenCommit \/ Finish \/ EndUpdate
           \/ \E manifest \in Manifest : Checkout(manifest)
           \/ \E f \in File : Normal(f) \/ Undelete(f)
    PROVE  TypeOK'
<1>w. map \in [File -> Entry] /\ pl \in Manifest /\ next \in Manifest
  BY DEF TypeOK
<1>u. Modified \in SUBSET File /\ Unchanged \in SUBSET File
  BY DEF Modified, Unchanged
<1>1. CASE Fixup
  BY <1>1, <1>u DEF TypeOK, Fixup, Start, memory, trans, risk
<1>2. CASE Commit
  <2>1. [f \in File |-> IF f \in Modified THEN wd[f].data ELSE pl[f]] \in Manifest
    BY DEF TypeOK, Manifest
  <2> QED BY <1>2, <1>u, <2>1 DEF TypeOK, Commit, Start, memory, trans, risk
<1>3. CASE EndFix
  <2>1. WriteTr(map, pl) /\ LeavePatched
    BY <1>3 DEF EndFix
  <2>2. /\ map' \in [File -> Entry] /\ disk' \in Stored
        /\ last' \in Time /\ dirty' \in BOOLEAN /\ gen' \in BOOLEAN /\ backup' \in Stored
    BY <1>w, <2>1, WriteTypes
  <2> QED BY <1>3, <2>1, <2>2, LeaveTypes DEF TypeOK, EndFix
<1>4. CASE OpenCommit
  <2>1. CASE Open
    <3>1. WriteNone(map, pl) /\ LeavePatched
      BY <2>1 DEF Open
    <3>2. /\ map' \in [File -> Entry] /\ disk' \in Stored
          /\ last' \in Time /\ dirty' \in BOOLEAN
      BY <1>w, <3>1, WriteTypes
    <3> QED BY <1>4, <2>1, <3>1, <3>2, LeaveTypes DEF TypeOK, OpenCommit, Open
  <2>2. CASE UNCHANGED <<now, wd, memory, disk, held, trans, risk>>
    BY <1>4, <2>2 DEF TypeOK, OpenCommit, memory, trans, risk
  <2> QED BY <1>4, <2>1, <2>2 DEF OpenCommit
<1>5. CASE Finish
  <2>1. WriteTr(map, next) /\ LeavePatched
    BY <1>5 DEF Finish
  <2>2. /\ map' \in [File -> Entry] /\ disk' \in Stored
        /\ last' \in Time /\ dirty' \in BOOLEAN /\ gen' \in BOOLEAN /\ backup' \in Stored
    BY <1>w, <2>1, WriteTypes
  <2> QED BY <1>5, <2>1, <2>2, LeaveTypes DEF TypeOK, Finish
<1>6. CASE EndUpdate
  BY <1>6 DEF TypeOK, EndUpdate, trans, risk
<1>7. ASSUME NEW manifest \in Manifest, Checkout(manifest) PROVE TypeOK'
  <2>1. wd' \in [File -> [data : Content, mtime : Time]]
    BY <1>7 DEF TypeOK, Checkout, Manifest
  <2>2. patched' \in SUBSET File /\ left' \in SUBSET File
    BY <1>7 DEF TypeOK, Checkout
  <2> QED BY <1>7, <2>1, <2>2 DEF TypeOK, Checkout, Start, memory, trans
<1>8. ASSUME NEW f \in File, Normal(f) PROVE TypeOK'
  <2>1. [size |-> Size[wd[f].data], mtime |-> wd[f].mtime] \in Entry
    BY SizeType DEF TypeOK, Entry
  <2>2. map' \in [File -> Entry] /\ last' \in Time /\ todo' \in SUBSET File
    BY <1>8, <2>1 DEF TypeOK, Normal
  <2>3. patched' \in SUBSET File /\ left' \in SUBSET File
    <3>1. left \in SUBSET File /\ Marked(f, left)
      BY <1>8 DEF TypeOK, Normal
    <3> QED BY <3>1, RiskTypes
  <2> QED BY <1>8, <2>2, <2>3 DEF TypeOK, Normal, trans
<1>9. ASSUME NEW f \in File, Undelete(f) PROVE TypeOK'
  <2>1. [size |-> Size[pl[f]], mtime |-> now] \in Entry
    BY SizeType DEF TypeOK, Entry, Manifest
  <2>2. wd' \in [File -> [data : Content, mtime : Time]] /\ map' \in [File -> Entry]
    BY <1>9, <2>1 DEF TypeOK, Undelete, Manifest
  <2>3. patched' \in SUBSET File /\ left' \in SUBSET File
    <3>1. left \ {f} \in SUBSET File /\ Marked(f, left \ {f})
      BY <1>9 DEF TypeOK, Undelete
    <3> QED BY <3>1, RiskTypes
  <2> QED BY <1>9, <2>2, <2>3 DEF TypeOK, Undelete, trans, step
<1> QED BY <1>1, <1>2, <1>3, <1>4, <1>5, <1>6, <1>7, <1>8, <1>9

\* ... and by the ends of locks, transactions and processes, and by writers.
LEMMA OtherTypes ==
    ASSUME TypeOK,
           \/ Lock \/ Unlock \/ OpenTr \/ CloseTr \/ AbortTr \/ Restart
           \/ Tick
           \/ \E f \in File, c \in Content : Patch(f, c) \/ UserEdit(f, c)
    PROVE  TypeOK'
<1>1. 0 \in Time
  BY BoundAssumption DEF Time
<1>w. /\ map \in [File -> Entry] /\ pl \in Manifest
      /\ disk.map \in [File -> Entry] /\ disk.pl \in Manifest
      /\ backup.map \in [File -> Entry] /\ backup.pl \in Manifest
  BY DEF TypeOK, Stored
<1>2. CASE Lock
  BY <1>2 DEF TypeOK, Lock, memory, trans, step, risk
<1>3. CASE Unlock
  <2>1. WriteNone(map, pl) /\ LeavePatched
    BY <1>3 DEF Unlock
  <2>2. map' \in [File -> Entry] /\ disk' \in Stored /\ last' \in Time /\ dirty' \in BOOLEAN
    BY <2>1, <1>w, WriteTypes
  <2> QED BY <1>3, <2>1, <2>2, LeaveTypes DEF TypeOK, Unlock, step
<1>4. CASE OpenTr
  <2>1. WriteNone(map, pl) /\ LeavePatched
    BY <1>4 DEF OpenTr, Open
  <2>2. map' \in [File -> Entry] /\ disk' \in Stored /\ last' \in Time /\ dirty' \in BOOLEAN
    BY <2>1, <1>w, WriteTypes
  <2> QED BY <1>4, <2>1, <2>2, LeaveTypes DEF TypeOK, OpenTr, Open, step
<1>5. CASE CloseTr
  <2>1. (WriteOut(map, pl) \/ WriteNone(map, pl)) /\ LeavePatched
    BY <1>5 DEF CloseTr
  <2>2. map' \in [File -> Entry] /\ disk' \in Stored /\ last' \in Time /\ dirty' \in BOOLEAN
    BY <2>1, <1>w, WriteTypes
  <2> QED BY <1>5, <2>1, <2>2, LeaveTypes DEF TypeOK, CloseTr, step
<1>6. CASE AbortTr
  BY <1>1, <1>6, <1>w DEF TypeOK, AbortTr
<1>7. CASE Restart
  BY <1>1, <1>7, <1>w DEF TypeOK, Restart
<1>8. CASE Tick
  BY <1>8, BoundAssumption DEF TypeOK, Tick, Time, memory, trans, step, risk
<1>9. ASSUME NEW f \in File, NEW c \in Content, Write(f, c)
      PROVE  wd' \in [File -> [data : Content, mtime : Time]]
  BY <1>9 DEF TypeOK, Write
<1>10. ASSUME NEW f \in File, NEW c \in Content, Patch(f, c) PROVE TypeOK'
  <2>1. Write(f, c) /\ UNCHANGED step
    BY <1>10 DEF Patch
  <2>2. patched' \in SUBSET File /\ left' \in SUBSET File
    BY <1>10 DEF Patch, TypeOK
  <2> QED BY <1>9, <2>1, <2>2 DEF TypeOK, Write, memory, trans, step
<1>11. ASSUME NEW f \in File, NEW c \in Content, UserEdit(f, c) PROVE TypeOK'
  <2>1. Write(f, c) /\ UNCHANGED step
    BY <1>11 DEF UserEdit
  <2>2. patched' \in SUBSET File /\ left' \in SUBSET File
    BY <1>11 DEF UserEdit, TypeOK
  <2> QED BY <1>9, <2>1, <2>2 DEF TypeOK, Write, memory, trans, step
<1> QED BY <1>2, <1>3, <1>4, <1>5, <1>6, <1>7, <1>8, <1>10, <1>11

LEMMA NextTypes == TypeOK /\ [Next]_vars => TypeOK'
<1> SUFFICES ASSUME TypeOK, [Next]_vars PROVE TypeOK'
  OBVIOUS
<1>1. CASE UNCHANGED vars
  BY <1>1 DEF TypeOK, vars, memory, trans, step, risk
<1>2. CASE Next
  BY <1>2, CommandTypes, OtherTypes DEF Next
<1> QED BY <1>1, <1>2

\* The variables of the dirstate and of the working directory have their
\* types in every reachable state.
THEOREM TypeCorrect == Spec => []TypeOK
BY InitTypes, NextTypes, PTL DEF Spec

-----------------------------------------------------------------------------
(* Writing                                                                 *)

\* What pack_dirstate does to a map: no entry is left that a file written
\* now could match, and those that are cleared match nothing.
LEMMA DroppedFacts ==
    ASSUME TypeOK, Times, NEW f \in File
    PROVE  /\ Dropped(map)[f].mtime < now
           /\ Dropped(map)[f].size = map[f].size
           /\ Dropped(map)[f].mtime = wd[f].mtime => map[f].mtime = wd[f].mtime
<1>1. Dropped(map)[f] = IF map[f].mtime = now THEN [map[f] EXCEPT !.mtime = -1] ELSE map[f]
  BY DEF Dropped
<1>2. map[f] \in Entry /\ now \in Int /\ 1 <= now /\ wd[f].mtime >= 1
      /\ map[f].mtime <= now /\ wd[f].mtime \in Int /\ map[f].mtime \in Int
  BY DEF TypeOK, Times, Time, Entry
<1>3. CASE map[f].mtime = now
  <2>1. Dropped(map)[f].mtime = -1 /\ Dropped(map)[f].size = map[f].size
    BY <1>1, <1>2, <1>3 DEF Entry
  <2> QED BY <1>2, <2>1
<1>4. CASE map[f].mtime # now
  BY <1>1, <1>2, <1>4
<1> QED BY <1>3, <1>4

\* Fresh entries go when a map is written, so a map that vouches for the files
\* that are neither patched nor left behind vouches for the patched ones also,
\* unless they are left behind now.
LEMMA OutKeeps ==
    ASSUME TypeOK, Inv, NEW p \in Manifest, Vouches(map, p, Trusted),
           map' = Dropped(map), LeavePatched
    PROVE  /\ left \subseteq left' /\ patched' = {}
           /\ \A f \in File : map'[f].mtime < now
           /\ Vouches(map', p, File \ left')
<1>1. Times /\ Fresh
  BY DEF Inv
<1>2. \A f \in File : map'[f].mtime < now
  BY <1>1, DroppedFacts
<1>3. left' = left \cup {f \in patched : map[f].mtime # now} /\ patched' = {}
  BY DEF LeavePatched
<1>4. ASSUME NEW f \in File \ left', map'[f].mtime = wd[f].mtime, SameSize(map', f)
      PROVE  wd[f].data = p[f]
  <2>1. map[f].mtime = wd[f].mtime /\ map'[f].size = map[f].size
    BY <1>1, <1>4, DroppedFacts
  <2>2. SameSize(map, f)
    BY <1>4, <2>1 DEF SameSize
  <2>3. map[f].mtime # now
    <3>1. now \in Int /\ map'[f].mtime < now
      BY <1>2 DEF TypeOK, Time
    <3>2. map'[f].mtime # now
      BY <3>1
    <3> QED BY <1>4, <2>1, <3>2
  <2>4. f \notin patched /\ f \notin left
    BY <1>3, <1>4, <2>3
  <2> QED BY <2>1, <2>2, <2>4 DEF Vouches, Trusted
<1> QED BY <1>2, <1>3, <1>4 DEF Vouches

\* What is not dirty has been written, and nothing is patched since.
LEMMA NotDirty ==
    ASSUME TypeOK, Inv, ~dirty
    PROVE  /\ map = disk.map /\ pl = disk.pl /\ last = 0
           /\ patched = {}
           /\ \A f \in File : map[f].mtime < now
           /\ Vouches(map, pl, File \ left)
<1>1. map = disk.map /\ pl = disk.pl /\ last = 0
  BY DEF Inv, Flags
<1>2. patched = {}
  <2> SUFFICES ASSUME NEW f \in patched PROVE FALSE
    OBVIOUS
  <2>1. wd[f].mtime = 0 /\ f \in File
    BY <1>1 DEF Inv, Fresh, TypeOK
  <2> QED BY <2>1 DEF Inv, Times
<1> QED BY <1>1, <1>2 DEF Inv, Stores, Settled

\* write(None)
LEMMA NoneKeeps ==
    ASSUME TypeOK, Inv, Vouches(map, pl, Trusted), WriteNone(map, pl), LeavePatched
    PROVE  /\ left \subseteq left' /\ patched' = {}
           /\ \A f \in File : map'[f].mtime < now
           /\ Vouches(map', pl, File \ left')
           /\ disk'.map = map' /\ disk'.pl = pl
           /\ last' = 0 /\ dirty' = FALSE
<1>1. CASE dirty
  <2>1. /\ map' = Dropped(map) /\ disk'.map = map' /\ disk'.pl = pl
        /\ last' = 0 /\ dirty' = FALSE
    BY <1>1 DEF WriteNone, WriteOut
  <2>2. pl \in Manifest
    BY DEF TypeOK
  <2> QED BY <2>1, <2>2, OutKeeps
<1>2. CASE ~dirty
  <2>1. UNCHANGED <<map, last, dirty, disk>> /\ dirty = FALSE
    BY <1>2 DEF WriteNone, TypeOK
  <2>2. left' = left /\ patched' = {}
    BY <1>2, NotDirty DEF LeavePatched
  <2> QED BY <1>2, <2>1, <2>2, NotDirty
<1> QED BY <1>1, <1>2

\* When the map has been written, or is about to be at the end of the
\* transaction, all entries are old.
LEMMA WrittenKeeps ==
    ASSUME TypeOK, TypeOK', Inv, UNCHANGED <<now, wd>>,
           left \subseteq left', patched' = {}, last' = 0,
           \A f \in File : map'[f].mtime < now,
           \/ disk' \in {disk, backup}
           \/ disk'.map = map' /\ Vouches(map', disk'.pl, File \ left'),
           backup' \in {backup, disk, disk'}
    PROVE  Times' /\ Stores' /\ Fresh'
<1>1. now \in Int /\ 1 <= now /\ \A f \in File : map'[f].mtime \in Int
  BY DEF TypeOK, Time, Times, Inv, Entry
<1>2. Times'
  BY <1>1 DEF Inv, Times
<1>3. ASSUME NEW s, Settled(s)
      PROVE  (\A f \in File : s.map[f].mtime < now') /\ Vouches(s.map, s.pl, File \ left')
  BY <1>3 DEF Settled, Vouches
<1>4. (\A f \in File : disk'.map[f].mtime < now') /\ Vouches(disk'.map, disk'.pl, File \ left')
  BY <1>3 DEF Inv, Stores
<1>5. /\ \A f \in File : backup'.map[f].mtime < now'
      /\ Vouches(backup'.map, backup'.pl, File \ left')
  BY <1>3, <1>4 DEF Inv, Stores
<1>6. Stores'
  BY <1>4, <1>5 DEF Stores, Settled, Vouches, SameSize
<1>7. Fresh'
  BY DEF Fresh
<1> QED BY <1>2, <1>6, <1>7

\* What follows for the invariant when the map has been written, between
\* commands.
LEMMA WrittenInv ==
    ASSUME TypeOK, TypeOK', Inv, UNCHANGED <<now, wd>>,
           left \subseteq left', patched' = {},
           op' = "idle", todo' = {}, tr' => held',
           backup' \in {backup, disk, disk'},
           \A f \in File : map'[f].mtime < now,
           Vouches(map', pl', File \ left'),
           disk'.map = map', disk'.pl = pl',
           last' = 0, dirty' = FALSE
    PROVE  Inv'
<1>1. Times' /\ Stores' /\ Fresh'
  BY WrittenKeeps
<1>2. Flags'
  BY DEF Flags
<1>3. Marks'
  BY DEF Marks, Vouches, SameSize, Trusted
<1> QED BY <1>1, <1>2, <1>3 DEF Inv

-----------------------------------------------------------------------------
(* Every action preserves the invariant                                    *)

LEMMA InitInv == Init => Inv
<1> SUFFICES ASSUME Init PROVE Inv
  OBVIOUS
<1>1. \A f \in File : map[f].mtime = -1 /\ wd[f].mtime = 1 /\ wd[f].data = pl[f]
  BY DEF Init
<1>2. Times
  BY <1>1 DEF Init, Times
<1>3. Stores
  BY <1>1 DEF Init, Stores, Settled, Vouches
<1>4. Fresh /\ Flags
  BY DEF Init, Fresh, Flags
<1>5. Marks
  BY <1>1 DEF Init, Marks, Vouches, Trusted
<1> QED BY <1>2, <1>3, <1>4, <1>5 DEF Inv

\* A command that has compared files (_checklookup) knows what they hold;
\* nothing else changes.
LEMMA FixupInv == ASSUME TypeOK, Inv, Fixup PROVE Inv'
<1>1. /\ UNCHANGED <<now, wd, map, pl, last, dirty, disk, held, tr, gen, backup, patched, left>>
      /\ op = "idle" /\ op' = "fix" /\ todo' = Unchanged /\ next' = pl /\ changed' = {}
  BY DEF Fixup, Start, memory, trans, risk
<1>2. Times' /\ Stores' /\ Fresh'
  BY <1>1 DEF Inv, Times, Stores, Settled, Vouches, SameSize, Fresh
<1>3. Flags'
  BY <1>1 DEF Inv, Flags
<1>4. \A f \in Unchanged : wd[f].data = pl[f]
  BY DEF Unchanged, Equal
<1>5. Vouches(map, pl, Trusted)
  BY <1>1 DEF Inv, Marks
<1>6. Marks'
  BY <1>1, <1>4, <1>5 DEF Marks, Vouches, SameSize, Trusted
<1> QED BY <1>2, <1>3, <1>6 DEF Inv

\* A commit also knows what it is about to record.
LEMMA CommitInv == ASSUME TypeOK, Inv, Commit PROVE Inv'
<1> DEFINE manifest == [f \in File |-> IF f \in Modified THEN wd[f].data ELSE pl[f]]
<1>1. /\ UNCHANGED <<now, wd, map, pl, last, dirty, disk, held, tr, gen, backup, patched, left>>
      /\ held /\ op = "idle" /\ op' = IF Unchanged = {} THEN "open" ELSE "fix"
      /\ todo' = Unchanged /\ next' = manifest /\ changed' = Modified
  BY DEF Commit, Start, memory, trans, risk
<1>2. \A f \in File : manifest[f] = IF f \in Modified THEN wd[f].data ELSE pl[f]
  OBVIOUS
<1> HIDE DEF manifest
<1>3. Times' /\ Stores' /\ Fresh'
  BY <1>1 DEF Inv, Times, Stores, Settled, Vouches, SameSize, Fresh
<1>4. Flags'
  BY <1>1 DEF Inv, Flags
<1>5. \A f \in Unchanged : wd[f].data = pl[f]
  BY DEF Unchanged, Equal
<1>6. Vouches(map, pl, Trusted)
  BY <1>1 DEF Inv, Marks
<1>7. Marks'
  <2>1. op' \in {"fix", "open"} /\ Vouches(map, pl, Trusted)' /\ Vouches(map, pl, Trusted \ todo)'
    BY <1>1, <1>6 DEF Vouches, SameSize, Trusted
  <2>2. \A f \in todo' : wd'[f].data = pl'[f]
    BY <1>1, <1>5
  <2>3. \A f \in File : IF f \in changed' THEN wd'[f].data = next'[f] ELSE next'[f] = pl'[f]
    BY <1>1, <1>2
  <2> QED BY <2>1, <2>2, <2>3 DEF Marks
<1> QED BY <1>3, <1>4, <1>7 DEF Inv

\* The map goes to the disk, or waits for the end of the transaction without
\* its fresh time stamps.
LEMMA TrKeeps ==
    ASSUME TypeOK, TypeOK', Inv, NEW p \in Manifest, UNCHANGED <<now, wd>>,
           Vouches(map, p, Trusted), WriteTr(map, p), LeavePatched
    PROVE  /\ Times' /\ Stores' /\ Fresh'
           /\ Vouches(map', p, File \ left') /\ patched' = {} /\ last' = 0
           /\ tr \/ (disk'.map = map' /\ disk'.pl = p /\ dirty' = FALSE)
           /\ tr => dirty' = TRUE
<1>1. map' = Dropped(map) /\ last' = 0
  BY DEF WriteTr, WriteOut
<1>2. /\ left \subseteq left' /\ patched' = {}
      /\ \A f \in File : map'[f].mtime < now
      /\ Vouches(map', p, File \ left')
  BY <1>1, OutKeeps
<1>3. CASE tr
  <2>1. disk' = disk /\ backup' = backup /\ dirty' = TRUE
    BY <1>3 DEF WriteTr
  <2> QED BY <1>1, <1>2, <1>3, <2>1, WrittenKeeps
<1>4. CASE ~tr
  <2>1. disk'.map = map' /\ disk'.pl = p /\ dirty' = FALSE /\ backup' = disk'
    BY <1>4 DEF WriteTr, WriteOut
  <2> QED BY <1>1, <1>2, <1>4, <2>1, WrittenKeeps
<1> QED BY <1>3, <1>4

\* The end of the fix-up
LEMMA EndFixInv == ASSUME TypeOK, TypeOK', Inv, EndFix PROVE Inv'
<1>1. /\ op = "fix" /\ todo = {} /\ WriteTr(map, pl) /\ LeavePatched
      /\ op' = IF changed = {} THEN "idle" ELSE "open"
      /\ UNCHANGED <<now, wd, pl, held, tr, todo, next, changed>>
  BY DEF EndFix
<1>2. Vouches(map, pl, Trusted) /\ pl \in Manifest
  BY <1>1 DEF Inv, Marks, TypeOK
<1>3. /\ Times' /\ Stores' /\ Fresh'
      /\ Vouches(map', pl, File \ left') /\ patched' = {} /\ last' = 0
      /\ tr \/ (disk'.map = map' /\ disk'.pl = pl /\ dirty' = FALSE)
      /\ tr => dirty' = TRUE
  BY <1>1, <1>2, TrKeeps
<1>4. Flags'
  BY <1>1, <1>3 DEF Inv, Flags
<1>5. Marks'
  BY <1>1, <1>3 DEF Inv, Marks, Vouches, SameSize, Trusted
<1> QED BY <1>3, <1>4, <1>5 DEF Inv

\* A commit that opens its transaction writes the dirstate first.
LEMMA OpenCommitInv == ASSUME TypeOK, TypeOK', Inv, OpenCommit PROVE Inv'
<1>1. /\ op = "open" /\ op' = "mark" /\ todo' = changed /\ changed' = {} /\ next' = next
      /\ held /\ Vouches(map, pl, Trusted)
      /\ \A f \in File : IF f \in changed THEN wd[f].data = next[f] ELSE next[f] = pl[f]
  BY DEF OpenCommit, Inv, Flags, Marks
<1>2. CASE Open
  <2>1. /\ WriteNone(map, pl) /\ LeavePatched /\ backup' = disk'
        /\ UNCHANGED <<now, wd, pl, held>>
    BY <1>2 DEF Open
  <2>2. /\ left \subseteq left' /\ patched' = {}
        /\ \A f \in File : map'[f].mtime < now
        /\ Vouches(map', pl, File \ left')
        /\ disk'.map = map' /\ disk'.pl = pl
        /\ last' = 0 /\ dirty' = FALSE
    BY <1>1, <2>1, NoneKeeps
  <2>3. Times' /\ Stores' /\ Fresh'
    BY <2>1, <2>2, WrittenKeeps
  <2>4. Flags'
    BY <1>1, <2>1, <2>2 DEF Flags
  <2>5. Marks'
    <3>1. \A f \in todo' : wd'[f].data = next'[f]
      BY <1>1, <2>1 DEF TypeOK
    <3>2. Vouches(map, next, Trusted \ todo)'
      BY <1>1, <2>1, <2>2 DEF Vouches, SameSize, Trusted
    <3> QED BY <1>1, <3>1, <3>2 DEF Marks
  <2> QED BY <2>3, <2>4, <2>5 DEF Inv
<1>3. CASE tr /\ UNCHANGED <<now, wd, memory, disk, held, trans, risk>>
  <2>1. UNCHANGED <<now, wd, map, pl, last, dirty, disk, held, tr, backup, patched, left>>
    BY <1>3 DEF memory, trans, risk
  <2>2. Times' /\ Stores' /\ Fresh'
    BY <2>1 DEF Inv, Times, Stores, Settled, Vouches, SameSize, Fresh
  <2>3. Flags'
    BY <1>1, <2>1 DEF Inv, Flags
  <2>4. Marks'
    <3>1. \A f \in todo' : wd'[f].data = next'[f]
      BY <1>1, <2>1 DEF TypeOK
    <3>2. Vouches(map, next, Trusted \ todo)'
      BY <1>1, <2>1 DEF Vouches, SameSize, Trusted
    <3> QED BY <1>1, <3>1, <3>2 DEF Marks
  <2> QED BY <2>2, <2>3, <2>4 DEF Inv
<1> QED BY <1>2, <1>3 DEF OpenCommit

\* The end of a commit
LEMMA FinishInv == ASSUME TypeOK, TypeOK', Inv, Finish PROVE Inv'
<1>1. /\ op = "mark" /\ todo = {} /\ pl' = next /\ WriteTr(map, next) /\ LeavePatched
      /\ op' = "idle"
      /\ UNCHANGED <<now, wd, held, tr, todo, next, changed>>
  BY DEF Finish
<1>2. Vouches(map, next, Trusted) /\ next \in Manifest
  BY <1>1 DEF Inv, Marks, TypeOK
<1>3. /\ Times' /\ Stores' /\ Fresh'
      /\ Vouches(map', next, File \ left') /\ patched' = {} /\ last' = 0
      /\ tr \/ (disk'.map = map' /\ disk'.pl = next /\ dirty' = FALSE)
      /\ tr => dirty' = TRUE
  BY <1>1, <1>2, TrKeeps
<1>4. Flags'
  BY <1>1, <1>3 DEF Inv, Flags
<1>5. Marks'
  BY <1>1, <1>3 DEF Marks, Vouches, SameSize, Trusted
<1> QED BY <1>3, <1>4, <1>5 DEF Inv

LEMMA EndUpdateInv == ASSUME TypeOK, Inv, EndUpdate PROVE Inv'
<1>1. /\ op = "update" /\ todo = {} /\ pl' = next /\ dirty' = TRUE /\ op' = "idle"
      /\ UNCHANGED <<now, wd, map, last, disk, held, tr, gen, backup, todo, next, patched, left>>
  BY DEF EndUpdate, trans, risk
<1>2. Times' /\ Stores' /\ Fresh'
  BY <1>1 DEF Inv, Times, Stores, Settled, Vouches, SameSize, Fresh
<1>3. Flags'
  BY <1>1 DEF Inv, Flags
<1>4. Marks'
  BY <1>1 DEF Inv, Marks, Vouches, SameSize, Trusted
<1> QED BY <1>2, <1>3, <1>4 DEF Inv

\* Files that are written now match no entry of what is stored, whether they
\* had been left behind or not.
LEMMA RewriteStores ==
    ASSUME TypeOK, Times, Stores, UNCHANGED <<now, disk, backup>>,
           \A f \in File : \/ wd'[f] = wd[f] /\ (f \in left => f \in left')
                           \/ wd'[f].mtime = now
    PROVE  Stores'
<1>1. ASSUME NEW s \in Stored, Settled(s), NEW f \in File \ left',
             s.map[f].mtime = wd'[f].mtime, s.map[f].size = Size[wd'[f].data]
      PROVE  wd'[f].data = s.pl[f]
  <2>1. now \in Int
    BY DEF TypeOK, Time
  <2>2. wd'[f] = wd[f] /\ f \notin left
    BY <1>1, <2>1 DEF Settled
  <2> QED BY <1>1, <2>2 DEF Settled, Vouches, SameSize
<1>2. disk \in Stored /\ backup \in Stored
  BY DEF TypeOK
<1> QED BY <1>1, <1>2 DEF Stores, Settled, Vouches, SameSize

\* A checkout writes the files that differ and leaves the others alone.
LEMMA CheckoutInv ==
    ASSUME TypeOK, Inv, NEW manifest \in Manifest, Checkout(manifest)
    PROVE  Inv'
<1> DEFINE differ == {f \in File : manifest[f] # pl[f]}
<1>1. /\ UNCHANGED <<now, map, pl, last, dirty, disk, held, tr, gen, backup>>
      /\ op = "idle" /\ op' = "update" /\ todo' = differ /\ next' = manifest
      /\ patched' = patched \ differ /\ left' = left \ differ
      /\ held
  BY DEF Checkout, Start, memory, trans
<1>2. ASSUME NEW f \in File
      PROVE  IF f \in differ THEN wd'[f].mtime = now /\ wd'[f].data = manifest[f]
                             ELSE wd'[f] = wd[f] /\ manifest[f] = pl[f]
  BY DEF Checkout, TypeOK
<1>a. differ \subseteq File
  OBVIOUS
<1> HIDE DEF differ
<1>3. now \in Int
  BY DEF TypeOK, Time
<1>4. Times'
  BY <1>1, <1>2, <1>3 DEF Inv, Times
<1>5. Fresh'
  BY <1>1, <1>2 DEF Inv, Fresh, TypeOK
<1>6. Stores'
  BY <1>1, <1>2, RewriteStores DEF Inv
<1>7. Flags'
  BY <1>1 DEF Inv, Flags
<1>8. Marks'
  <2>1. Vouches(map, pl, Trusted)
    BY <1>1 DEF Inv, Marks
  <2>2. \A f \in differ : wd'[f].data = manifest[f]
    BY <1>2, <1>a
  <2>3. ASSUME NEW f \in Trusted' \ differ, map[f].mtime = wd'[f].mtime,
               map[f].size = Size[wd'[f].data]
        PROVE  wd'[f].data = manifest[f]
    <3>1. f \in Trusted /\ f \in File
      BY <1>1, <2>3 DEF Trusted
    <3> QED BY <1>2, <2>1, <2>3, <3>1 DEF Vouches, SameSize
  <2> QED BY <1>1, <2>2, <2>3 DEF Marks, Vouches, SameSize
<1> QED BY <1>4, <1>5, <1>6, <1>7, <1>8 DEF Inv

\* When a file f is marked, the others are as patched or left behind as they
\* were, or more; and patched files keep the last time stamp.
LEMMA MarkedKeeps ==
    ASSUME TypeOK, NEW f \in File, NEW behind, Marked(f, behind)
    PROVE  /\ Trusted' \subseteq (File \ (behind \cup patched)) \cup {f}
           /\ behind \subseteq left'
           /\ \A g \in patched' : g \in patched /\ g # f /\ last' = last
BY DEF Marked, Trusted

LEMMA NormalInv == ASSUME TypeOK, TypeOK', Inv, NEW f \in File, Normal(f) PROVE Inv'
<1>1. /\ UNCHANGED <<now, wd, pl, disk, held, tr, gen, backup, op, next, changed>>
      /\ f \in todo /\ dirty' = TRUE /\ todo' = todo \ {f}
      /\ last' = IF wd[f].mtime > last THEN wd[f].mtime ELSE last
      /\ Marked(f, left)
      /\ \A g \in File : map'[g] = IF g = f THEN [size |-> Size[wd[f].data], mtime |-> wd[f].mtime]
                                   ELSE map[g]
  BY DEF Normal, trans, TypeOK
<1>a. /\ Trusted' \subseteq Trusted \cup {f}
      /\ left \subseteq left'
      /\ \A g \in patched' : g \in patched /\ g # f /\ last' = last
  BY <1>1, MarkedKeeps DEF Trusted
<1>2. /\ now \in Int /\ last \in Int /\ 1 <= now /\ last <= now
      /\ \A g \in File : /\ wd[g].mtime \in Int /\ 1 <= wd[g].mtime /\ wd[g].mtime <= now
                         /\ map[g].mtime \in Int /\ map[g].mtime <= now
                         /\ map[g].mtime = now => last = now
  BY DEF TypeOK, Time, Entry, Inv, Times
<1>3. Times'
  BY <1>1, <1>2 DEF Times
<1>4. Stores'
  BY <1>1, <1>a DEF Inv, Stores, Settled, Vouches, SameSize
<1>b. Fresh'
  BY <1>1, <1>a DEF Inv, Fresh, TypeOK
<1>5. op # "idle" /\ op # "open"
  BY <1>1 DEF Inv, Flags
<1>6. Flags'
  BY <1>1, <1>5 DEF Inv, Flags
<1>7. Marks'
  <2>1. op = "fix" => wd[f].data = pl[f]
    BY <1>1 DEF Inv, Marks
  <2>2. op # "fix" => wd[f].data = next[f]
    BY <1>1, <1>5 DEF Inv, Marks, TypeOK
  <2>3. ASSUME NEW p, Vouches(map, p, Trusted \ todo), wd[f].data = p[f]
        PROVE  Vouches(map', p, Trusted' \ todo')
    BY <1>1, <1>a, <2>3 DEF Vouches, SameSize, Trusted
  <2>4. CASE op = "fix"
    <3>1. Vouches(map', pl, Trusted' \ todo')
      BY <2>1, <2>3, <2>4 DEF Inv, Marks
    <3> QED BY <1>1, <2>4, <3>1 DEF Inv, Marks, Vouches, SameSize
  <2>5. CASE op # "fix"
    <3>1. Vouches(map', next, Trusted' \ todo')
      BY <1>5, <2>2, <2>3, <2>5 DEF Inv, Marks, TypeOK
    <3> QED BY <1>1, <1>5, <2>5, <3>1 DEF Inv, Marks, Vouches, SameSize
  <2> QED BY <2>4, <2>5
<1> QED BY <1>3, <1>4, <1>b, <1>6, <1>7 DEF Inv

LEMMA UndeleteInv == ASSUME TypeOK, Inv, NEW f \in File, Undelete(f) PROVE Inv'
<1>1. /\ UNCHANGED <<now, pl, disk, held, tr, gen, backup, op, todo, next, changed>>
      /\ op = "idle" /\ held /\ last' = now /\ dirty' = TRUE
      /\ Marked(f, left \ {f})
      /\ \A g \in File : /\ wd'[g] = IF g = f THEN [data |-> pl[f], mtime |-> now] ELSE wd[g]
                         /\ map'[g] = IF g = f THEN [size |-> Size[pl[f]], mtime |-> now]
                                      ELSE map[g]
  BY DEF Undelete, trans, step, TypeOK
<1>a. /\ Trusted' \subseteq Trusted \cup {f}
      /\ left \ {f} \subseteq left'
      /\ \A g \in patched' : g \in patched /\ g # f /\ last' = last
  BY <1>1, MarkedKeeps DEF Trusted
<1>2. now \in Int
  BY DEF TypeOK, Time
<1>3. Times'
  BY <1>1, <1>2 DEF Inv, Times
<1>4. Stores'
  BY <1>1, <1>a, RewriteStores DEF Inv
<1>b. Fresh'
  BY <1>1, <1>a DEF Inv, Fresh, TypeOK
<1>5. Flags'
  BY <1>1 DEF Inv, Flags
<1>6. Marks'
  <2>1. Vouches(map, pl, Trusted)
    BY <1>1 DEF Inv, Marks
  <2>2. ASSUME NEW g \in Trusted', map'[g].mtime = wd'[g].mtime,
               map'[g].size = Size[wd'[g].data]
        PROVE  wd'[g].data = pl[g]
    <3>1. CASE g = f
      BY <1>1, <3>1
    <3>2. CASE g # f
      <4>1. g \in Trusted /\ g \in File
        BY <1>a, <2>2, <3>2 DEF Trusted
      <4> QED BY <1>1, <2>1, <2>2, <3>2, <4>1 DEF Vouches, SameSize
    <3> QED BY <3>1, <3>2
  <2> QED BY <1>1, <2>2 DEF Marks, Vouches, SameSize
<1> QED BY <1>3, <1>4, <1>b, <1>5, <1>6 DEF Inv

-----------------------------------------------------------------------------
(* Locks and transactions                                                  *)

LEMMA LockInv == ASSUME TypeOK, Inv, Lock PROVE Inv'
<1>1. /\ UNCHANGED <<now, wd, map, pl, last, dirty, disk, tr, gen, backup, op, todo, next, changed>>
      /\ UNCHANGED <<patched, left>>
      /\ held' = TRUE /\ op = "idle"
  BY DEF Lock, memory, trans, step, risk
<1>2. Times' /\ Stores' /\ Fresh'
  BY <1>1 DEF Inv, Times, Stores, Settled, Vouches, SameSize, Fresh
<1>3. Flags' /\ Marks'
  BY <1>1 DEF Inv, Flags, Marks, Vouches, SameSize, Trusted
<1> QED BY <1>2, <1>3 DEF Inv

LEMMA UnlockInv == ASSUME TypeOK, TypeOK', Inv, Unlock PROVE Inv'
<1>1. /\ op = "idle" /\ ~tr /\ WriteNone(map, pl) /\ LeavePatched
      /\ backup' = disk' /\ held' = FALSE
      /\ UNCHANGED <<now, wd, pl, tr, gen, op, todo, next>>
  BY DEF Unlock, step
<1>2. todo = {} /\ pl \in Manifest /\ Vouches(map, pl, Trusted)
  BY <1>1 DEF Inv, Flags, Marks, TypeOK
<1>3. /\ left \subseteq left' /\ patched' = {}
      /\ \A f \in File : map'[f].mtime < now
      /\ Vouches(map', pl, File \ left')
      /\ disk'.map = map' /\ disk'.pl = pl
      /\ last' = 0 /\ dirty' = FALSE
  BY <1>1, <1>2, NoneKeeps
<1>4. op' = "idle" /\ todo' = {} /\ (tr' => held') /\ pl' = pl
  BY <1>1, <1>2
<1> QED BY <1>1, <1>3, <1>4, WrittenInv

LEMMA OpenTrInv == ASSUME TypeOK, TypeOK', Inv, OpenTr PROVE Inv'
<1>1. /\ op = "idle" /\ held /\ ~tr /\ WriteNone(map, pl) /\ LeavePatched
      /\ backup' = disk'
      /\ UNCHANGED <<now, wd, pl, held, op, todo, next>>
  BY DEF OpenTr, Open, step
<1>2. todo = {} /\ pl \in Manifest /\ Vouches(map, pl, Trusted)
  BY <1>1 DEF Inv, Flags, Marks, TypeOK
<1>3. /\ left \subseteq left' /\ patched' = {}
      /\ \A f \in File : map'[f].mtime < now
      /\ Vouches(map', pl, File \ left')
      /\ disk'.map = map' /\ disk'.pl = pl
      /\ last' = 0 /\ dirty' = FALSE
  BY <1>1, <1>2, NoneKeeps
<1>4. op' = "idle" /\ todo' = {} /\ (tr' => held') /\ pl' = pl
  BY <1>1, <1>2
<1> QED BY <1>1, <1>3, <1>4, WrittenInv

LEMMA CloseTrInv == ASSUME TypeOK, TypeOK', Inv, CloseTr PROVE Inv'
<1>1. /\ op = "idle" /\ tr /\ LeavePatched
      /\ WriteOut(map, pl) \/ WriteNone(map, pl)
      /\ tr' = FALSE /\ backup' = disk'
      /\ UNCHANGED <<now, wd, pl, held, op, todo, next>>
  BY DEF CloseTr, step
<1>2. todo = {} /\ pl \in Manifest /\ Vouches(map, pl, Trusted)
  BY <1>1 DEF Inv, Flags, Marks, TypeOK
<1>3. /\ left \subseteq left' /\ patched' = {}
      /\ \A f \in File : map'[f].mtime < now
      /\ Vouches(map', pl, File \ left')
      /\ disk'.map = map' /\ disk'.pl = pl
      /\ last' = 0 /\ dirty' = FALSE
  <2>1. CASE WriteOut(map, pl)
    <3>1. /\ map' = Dropped(map) /\ disk'.map = map' /\ disk'.pl = pl
          /\ last' = 0 /\ dirty' = FALSE
      BY <2>1 DEF WriteOut
    <3> QED BY <1>1, <1>2, <3>1, OutKeeps
  <2>2. CASE WriteNone(map, pl)
    BY <1>1, <1>2, <2>2, NoneKeeps
  <2> QED BY <1>1, <2>1, <2>2
<1>4. op' = "idle" /\ todo' = {} /\ (tr' => held') /\ pl' = pl
  BY <1>1, <1>2
<1> QED BY <1>1, <1>3, <1>4, WrittenInv

\* What was written long ago is read again (abort, end of a process).
LEMMA ForgetInv ==
    ASSUME TypeOK, TypeOK', Inv, AbortTr \/ Restart
    PROVE  Inv'
<1>1. /\ UNCHANGED <<now, wd, left>> /\ map' = disk'.map /\ pl' = disk'.pl
      /\ disk' \in {disk, backup} /\ backup' \in {backup, disk}
      /\ last' = 0 /\ dirty' = FALSE /\ tr' = FALSE
      /\ op' = "idle" /\ todo' = {} /\ patched' = {}
  BY DEF AbortTr, Restart
<1>2. Settled(disk')
  BY <1>1 DEF Inv, Stores
<1>3. (\A f \in File : map'[f].mtime < now) /\ Vouches(map', pl', File \ left')
  BY <1>1, <1>2 DEF Settled
<1>4. left \subseteq left' /\ tr' => held'
  BY <1>1
<1> QED BY <1>1, <1>3, <1>4, WrittenInv

-----------------------------------------------------------------------------
(* The world                                                               *)

LEMMA TickInv == ASSUME TypeOK, TypeOK', Inv, Tick PROVE Inv'
<1>1. /\ UNCHANGED <<wd, map, pl, last, dirty, disk, held, tr, gen, backup, op, todo, next>>
      /\ UNCHANGED <<changed, patched, left>>
      /\ now' = now + 1
  BY DEF Tick, memory, trans, step, risk
<1>2. /\ now \in Int /\ last \in Int
      /\ \A f \in File : /\ wd[f].mtime \in Int /\ map[f].mtime \in Int
                         /\ disk.map[f].mtime \in Int /\ backup.map[f].mtime \in Int
  BY DEF TypeOK, Time, Entry, Stored
<1>3. Times'
  BY <1>1, <1>2 DEF Inv, Times
<1>4. Stores'
  BY <1>1, <1>2 DEF Inv, Stores, Settled, Vouches, SameSize
<1>5. Fresh' /\ Flags'
  BY <1>1 DEF Inv, Fresh, Flags
<1>6. Marks'
  BY <1>1 DEF Inv, Marks, Vouches, SameSize, Trusted
<1> QED BY <1>3, <1>4, <1>5, <1>6 DEF Inv

\* A file that is patched has the time stamp of its entry only if that is now.
LEMMA PatchInv ==
    ASSUME TypeOK, Inv, NEW f \in File, NEW c \in Content, Patch(f, c)
    PROVE  Inv'
<1>1. /\ UNCHANGED <<now, map, pl, last, dirty, disk, held, tr, gen, backup, op, todo, next, changed>>
      /\ op = "idle" /\ held
      /\ patched' = IF map[f].mtime = now THEN patched \cup {f} ELSE patched \ {f}
      /\ left' = left \ {f}
      /\ \A g \in File : wd'[g] = IF g = f THEN [data |-> c, mtime |-> now] ELSE wd[g]
  BY DEF Patch, Write, memory, trans, step, TypeOK
<1>2. now \in Int /\ 1 <= now
  BY DEF TypeOK, Time, Inv, Times
<1>3. Times'
  BY <1>1, <1>2 DEF Inv, Times
<1>4. Stores'
  BY <1>1, RewriteStores DEF Inv
<1>5. Flags'
  BY <1>1 DEF Inv, Flags
<1>6. Fresh'
  <2>1. map[f].mtime = now => last = now
    BY DEF Inv, Times
  <2>2. ASSUME NEW g \in patched' PROVE wd'[g].mtime = last /\ map[g].mtime = last
    <3>1. CASE g = f
      <4>1. map[f].mtime = now
        BY <1>1, <2>2, <3>1
      <4> QED BY <1>1, <2>1, <3>1, <4>1
    <3>2. CASE g # f
      <4>1. g \in patched /\ g \in File
        BY <1>1, <2>2, <3>2 DEF TypeOK
      <4> QED BY <1>1, <3>2, <4>1 DEF Inv, Fresh
    <3> QED BY <3>1, <3>2
  <2> QED BY <1>1, <2>2 DEF Fresh
<1>7. Marks'
  <2>1. Vouches(map, pl, Trusted)
    BY <1>1 DEF Inv, Marks
  <2>2. ASSUME NEW g \in Trusted', map[g].mtime = wd'[g].mtime,
               map[g].size = Size[wd'[g].data]
        PROVE  wd'[g].data = pl[g]
    <3>1. g # f
      BY <1>1, <2>2 DEF Trusted
    <3>2. g \in Trusted /\ g \in File
      BY <1>1, <2>2, <3>1 DEF Trusted
    <3> QED BY <1>1, <2>1, <2>2, <3>1, <3>2 DEF Vouches, SameSize
  <2> QED BY <1>1, <2>2 DEF Marks, Vouches, SameSize
<1> QED BY <1>3, <1>4, <1>5, <1>6, <1>7 DEF Inv

\* The user writes while no command runs: then all that is in memory is on
\* the disk, and older.
LEMMA UserEditInv ==
    ASSUME TypeOK, Inv, ~Meddling, NEW f \in File, NEW c \in Content, UserEdit(f, c)
    PROVE  Inv'
<1>1. /\ UNCHANGED <<now, map, pl, last, dirty, disk, held, tr, gen, backup, op, todo, next, changed>>
      /\ op = "idle" /\ ~held
      /\ patched' = patched \ {f} /\ left' = left \ {f}
      /\ \A g \in File : wd'[g] = IF g = f THEN [data |-> c, mtime |-> now] ELSE wd[g]
  BY DEF UserEdit, Write, memory, trans, step, TypeOK
<1>2. now \in Int
  BY DEF TypeOK, Time
<1>3. Times'
  BY <1>1, <1>2 DEF Inv, Times
<1>4. Stores'
  BY <1>1, RewriteStores DEF Inv
<1>5. Flags'
  BY <1>1 DEF Inv, Flags
<1>6. map = disk.map /\ pl = disk.pl /\ patched = {}
  <2>1. ~dirty
    BY <1>1 DEF Inv, Flags
  <2> QED BY <2>1, NotDirty
<1>7. Fresh'
  BY <1>1, <1>6 DEF Fresh
<1>8. Marks'
  <2>1. Vouches(disk.map, disk.pl, File \ left)'
    BY <1>4 DEF Stores, Settled
  <2>2. Vouches(map, pl, Trusted)'
    BY <1>1, <1>6, <2>1 DEF Vouches, SameSize, Trusted
  <2> QED BY <1>1, <2>2 DEF Marks
<1> QED BY <1>3, <1>4, <1>5, <1>7, <1>8 DEF Inv

LEMMA NextInv ==
    ASSUME ~Meddling, TypeOK, TypeOK', Inv, [Next]_vars
    PROVE  Inv'
<1>1. CASE UNCHANGED vars
  <2>1. /\ UNCHANGED <<now, wd, map, pl, last, dirty, disk, held, tr, gen, backup, op, todo>>
        /\ UNCHANGED <<next, changed, patched, left>>
    BY <1>1 DEF vars, memory, trans, step, risk
  <2>2. Times' /\ Stores' /\ Fresh'
    BY <2>1 DEF Inv, Times, Stores, Settled, Vouches, SameSize, Fresh
  <2>3. Flags' /\ Marks'
    BY <2>1 DEF Inv, Flags, Marks, Vouches, SameSize, Trusted
  <2> QED BY <2>2, <2>3 DEF Inv
<1>2. CASE Next
  BY <1>2, FixupInv, CommitInv, EndFixInv, OpenCommitInv, FinishInv, EndUpdateInv,
     CheckoutInv, NormalInv, UndeleteInv, LockInv, UnlockInv, OpenTrInv, CloseTrInv,
     ForgetInv, TickInv, PatchInv, UserEditInv DEF Next
<1> QED BY <1>1, <1>2

\* What is promised of the file, of the memory and of the copy
LEMMA InvSuffices == ASSUME TypeOK, Inv PROVE NothingTakenForClean
<1>1. Settled(disk) /\ Settled(backup)
  BY DEF Inv, Stores
<1>2. \A f \in File \ left : Clean(disk.map, 0, f) => wd[f].data = disk.pl[f]
  BY <1>1 DEF Clean, Settled, Vouches
<1>3. tr => \A f \in File \ left :
                Clean(backup.map, 0, f) => wd[f].data = backup.pl[f]
  BY <1>1 DEF Clean, Settled, Vouches
<1>4. ASSUME op = "idle", NEW f \in File \ left, Clean(map, last, f) PROVE Equal(f)
  <2>1. f \notin patched
    BY <1>4 DEF Inv, Fresh, Clean
  <2>2. Vouches(map, pl, Trusted)
    BY <1>4 DEF Inv, Marks
  <2> QED BY <1>4, <2>1, <2>2 DEF Vouches, Clean, Equal, Trusted
<1> QED BY <1>2, <1>3, <1>4 DEF NothingTakenForClean

\* As long as users edit files between commands only, a changed file is taken
\* for clean, by whoever looks, only if a command has marked it, patched it in
\* the same second, and then, in a later second, written the dirstate or marked
\* another file before it committed the patch (left); and only until the file
\* is written again.  With any number of files, whatever their sizes, and for
\* ever.
THEOREM NothingTakenForCleanHolds ==
    ASSUME ~Meddling
    PROVE  Spec => []NothingTakenForClean
<1>1. Init => TypeOK /\ Inv
  BY InitTypes, InitInv
<1>2. TypeOK /\ Inv /\ [Next]_vars => (TypeOK /\ Inv)'
  BY NextTypes, NextInv
<1>3. TypeOK /\ Inv => NothingTakenForClean
  BY InvSuffices
<1> QED BY <1>1, <1>2, <1>3, PTL DEF Spec

=============================================================================
