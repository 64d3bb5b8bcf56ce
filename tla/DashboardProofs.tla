---------------------------- MODULE DashboardProofs ----------------------------
(***************************************************************************)
(* Theorems about what the dashboard shows: the mounts and their rows, the *)
(* workspace of an account, and the panels of a VM. Each part has its own  *)
(* specification, and its bounds are nobody's: any accounts, projects,     *)
(* places, names and presses.                                              *)
(*                                                                         *)
(* Mounts: rows and mounts agree because a place where one call at a time  *)
(* works (Alone) holds one mount at most (Clear): sshfs is run on a clear  *)
(* place only, an unmount clears it before it forgets the row, and a       *)
(* refresh drops what it found gone while nobody could mount it again      *)
(* (GoneIsGone). None of it rests on the registry's lock.                  *)
(*                                                                         *)
(* Workspace: as long as the user does one thing at a time, what is shown, *)
(* stored and restored are all what he meant (Kept), and whatever he does, *)
(* between a change of account and its restoration everything listed is    *)
(* either the active account's or noted as crossed (RowsInv).              *)
(*                                                                         *)
(* Console: a panel not asked twice at once has one reading under way      *)
(* (OneQuestion), and a command that changed a list either still owes its  *)
(* reading, or has the list marked out of date (SnapshotsFollow,           *)
(* FilesFollow).                                                           *)
(***************************************************************************)
EXTENDS Mounts, VmConsole, SequenceTheorems, TLAPS

(* The mounts                                                              *)

\* The steps of a mount once sshfs has run, and those of a call that may hold what
\* a refresh found or left.
Since == {"register", "refresh", "looking", "show", "done"}
Asking == {"looking", "show", "done"}

\* The calls whose sshfs has run.
Made == {id \in Calls : call[id].op = "mount" /\ call[id].pc \in Since}

\* A mount works through its own steps at its own place, and what a call holds
\* of the registry are mounts.
CallsInOrder ==
    \A c \in Calls :
        /\ call[c].op = "mount" => /\ call[c].at \in Places
                                   /\ call[c].pc \in {"gate", "look", "prepare", "sshfs"} \union Since
        /\ call[c].pc \in {"look", "prepare", "sshfs", "register"} => call[c].op = "mount"
        /\ call[c].left \union call[c].gone \subseteq Made
        /\ call[c].pc \notin Asking => call[c].gone = {}

\* The rows are mounts, and what is mounted is mounted at its call's place.
RowsAreMounts == table \union activeMounts \subseteq Made

StackIsMounts ==
    \A p \in Places : \A n \in 1..Len(stack[p]) :
        stack[p][n] \in Made /\ PlaceOf(stack[p][n]) = p

\* Two calls work on one place only where that has been noticed.
Alone ==
    \A c, d \in Calls :
        Working(c) /\ Working(d) /\ call[c].at = call[d].at /\ call[c].at \notin crowded => c = d

\* Where it has not, a place holds one mount at most, and none when sshfs is run
\* or a row is being forgotten.
Clear ==
    /\ \A p \in Places : stack[p] # <<>> => p \in exists
    /\ \A p \in Places \ crowded :
        /\ Len(stack[p]) <= 1
        /\ \A c \in Calls : call[c].at = p =>
             /\ At(c, "prepare") => stack[p] = <<>> \/ DeadAt(p)
             /\ call[c].pc \in {"sshfs", "forget"} => stack[p] = <<>>

\* What a refresh found gone stays gone.
GoneIsGone ==
    \A c \in Calls : At(c, "looking") => \A id \in call[c].gone :
        ~Mounted(id) \/ id \in dead \/ PlaceOf(id) \in crowded

\* A row about to be made is that of a mount.
RegistersMount ==
    \A c \in Calls : At(c, "register") =>
        Mounted(c) \/ c \in outside \/ PlaceOf(c) \in crowded

MountsInv ==
    /\ TypeOK /\ CallsInOrder /\ RowsAreMounts /\ StackIsMounts /\ Alone /\ Clear
    /\ GoneIsGone /\ RegistersMount /\ TableIsWhatIsMounted

-----------------------------------------------------------------------------
(* The stacks *)

\* A mount is somewhere on a stack.
LEMMA SomewhereIs ==
    ASSUME NEW s \in [Places -> Seq(Calls)], NEW id
    PROVE  (\E p \in Places : \E n \in DOMAIN s[p] : s[p][n] = id)
             <=> \E p \in Places : \E n \in 1..Len(s[p]) : s[p][n] = id
<1>1. \A p \in Places : DOMAIN s[p] = 1..Len(s[p])
  BY LenProperties
<1> QED
  BY <1>1

LEMMA MountedIs ==
    ASSUME TypeOK, NEW id \in Calls
    PROVE  Mounted(id) <=> \E p \in Places : \E n \in 1..Len(stack[p]) : stack[p][n] = id
BY SomewhereIs DEF Mounted, TypeOK

\* A place without a mount has an empty stack.
LEMMA EmptyStack ==
    ASSUME NEW s \in Seq(Calls)
    PROVE  /\ Len(s) \in Nat /\ (s = <<>> <=> Len(s) = 0)
           /\ \A n \in 1..Len(s) : s[n] \in Calls
BY EmptySeq, LenProperties, ElementOfSeq

\* Taking the visible mount off leaves the others.
LEMMA PoppedIs ==
    ASSUME NEW s \in Seq(Calls), s # <<>>
    PROVE  /\ Popped(s) \in Seq(Calls) /\ Len(Popped(s)) = Len(s) - 1
           /\ \A n \in 1..Len(s) - 1 : Popped(s)[n] = s[n]
           /\ Len(s) \in 1..Len(s) /\ s[Len(s)] \in Calls
           /\ Len(s) <= 1 => Popped(s) = <<>>
<1>1. Len(s) \in Nat /\ Len(s) # 0 /\ \A n \in 1..Len(s) : s[n] \in Calls
  BY EmptyStack
<1>2. /\ Popped(s) \in Seq(Calls)
      /\ Len(Popped(s)) = IF 1 <= Len(s) - 1 THEN Len(s) - 1 - 1 + 1 ELSE 0
      /\ \A n \in 1..Len(s) - 1 - 1 + 1 : Popped(s)[n] = s[1 + n - 1]
  <2>1. 1 \in Int /\ Len(s) - 1 \in Int /\ \A n \in 1..Len(s) - 1 : s[n] \in Calls
    BY <1>1
  <2> QED
    BY <2>1, SubSeqProperties DEF Popped
<1>3. Len(Popped(s)) = Len(s) - 1
  <2>1. \A k \in Nat \ {0} : (IF 1 <= k - 1 THEN k - 1 - 1 + 1 ELSE 0) = k - 1
    OBVIOUS
  <2> QED
    BY <1>1, <1>2, <2>1
<1>4. \A n \in 1..Len(s) - 1 : Popped(s)[n] = s[n]
  <2>1. SUFFICES ASSUME NEW n \in 1..Len(s) - 1 PROVE Popped(s)[n] = s[n]
    OBVIOUS
  <2>2. n \in 1..Len(s) - 1 - 1 + 1 /\ 1 + n - 1 = n
    BY <1>1
  <2> QED
    BY <1>2, <2>2
<1>5. Len(s) <= 1 => Popped(s) = <<>>
  BY <1>1, <1>2, <1>3, EmptyStack
<1> QED
  BY <1>1, <1>2, <1>3, <1>4, <1>5

-----------------------------------------------------------------------------
(* The steps of a call *)

\* Call c becomes r, which keeps it in order.
Advances(c, r) ==
    /\ call' = [call EXCEPT ![c] = r] /\ r \in CallType
    /\ crowded \subseteq crowded' /\ crowded' \subseteq Places
    /\ c \in Made => r.op = "mount" /\ r.pc \in Since /\ r.at = call[c].at
    /\ r.op = "mount" => /\ r.at \in Places
                         /\ r.pc \in {"gate", "look", "prepare", "sshfs"} \union Since
    /\ r.pc \in {"look", "prepare", "sshfs", "register"} => r.op = "mount"
    /\ r.left \union r.gone \subseteq Made
    /\ r.pc \notin Asking => r.gone = {}
    /\ r.pc \in {"look", "prepare", "sshfs", "register", "lookUp", "fusermount", "lazy",
                 "forget"} =>
          /\ r.at \in Places
          /\ \/ Working(c) /\ call[c].at = r.at
             \/ \A d \in Calls \ {c} :
                   Working(d) /\ call[d].at = r.at => r.at \in crowded'

\* What it then claims of its place and of what it found gone is so.
Claims(c, r) ==
    /\ r.at \in Places \ crowded' =>
          /\ r.pc = "prepare" => stack[r.at] = <<>> \/ DeadAt(r.at)
          /\ r.pc \in {"sshfs", "forget"} => stack[r.at] = <<>>
    /\ r.pc = "looking" => \A id \in r.gone :
          ~Mounted(id) \/ id \in dead \/ PlaceOf(id) \in crowded'
    /\ r.pc # "register"

\* One call changes; the others, and what was made, stay.
LEMMA MovesOne ==
    ASSUME MountsInv, NEW c \in Calls, NEW r, Advances(c, r)
    PROVE  /\ call' \in [Calls -> CallType] /\ call'[c] = r
           /\ \A d \in Calls \ {c} : call'[d] = call[d]
           /\ Made \subseteq Made' /\ Made' \subseteq Calls
           /\ \A id \in Made : call'[id].at = call[id].at
<1>1. call \in [Calls -> CallType]
  BY DEF MountsInv, TypeOK
<1>2. /\ call' \in [Calls -> CallType] /\ call'[c] = r
      /\ \A d \in Calls \ {c} : call'[d] = call[d]
  BY <1>1 DEF Advances
<1>3. c \in Made => r.op = "mount" /\ r.pc \in Since /\ r.at = call[c].at
  BY DEF Advances
<1> QED
  BY <1>2, <1>3 DEF Made

\* The calls stay in order.
LEMMA MovesCalls ==
    ASSUME MountsInv, NEW c \in Calls, NEW r, Advances(c, r)
    PROVE  /\ \A d \in Calls : Working(d)' => call'[d].at \in Places
           /\ CallsInOrder' /\ Alone'
<1>1. /\ call'[c] = r /\ Made \subseteq Made'
      /\ \A d \in Calls \ {c} : call'[d] = call[d]
  BY MovesOne
<1>2. \A d \in Calls \ {c} : Working(d)' <=> Working(d)
  BY <1>1 DEF Working
<1>3. ASSUME NEW d \in Calls, Working(d)' PROVE call'[d].at \in Places
  BY <1>1, <1>2, <1>3 DEF Working, Advances, MountsInv, TypeOK
<1>4. CallsInOrder'
  <2>1. ASSUME NEW d \in Calls \ {c}
        PROVE  /\ call[d].op = "mount" =>
                    /\ call[d].at \in Places
                    /\ call[d].pc \in {"gate", "look", "prepare", "sshfs"} \union Since
               /\ call[d].pc \in {"look", "prepare", "sshfs", "register"} => call[d].op = "mount"
               /\ call[d].left \union call[d].gone \subseteq Made
               /\ call[d].pc \notin Asking => call[d].gone = {}
    BY DEF MountsInv, CallsInOrder
  <2>2. /\ r.op = "mount" => /\ r.at \in Places
                             /\ r.pc \in {"gate", "look", "prepare", "sshfs"} \union Since
        /\ r.pc \in {"look", "prepare", "sshfs", "register"} => r.op = "mount"
        /\ r.left \union r.gone \subseteq Made
        /\ r.pc \notin Asking => r.gone = {}
    BY DEF Advances
  <2>3. \A d \in Calls : call'[d] = IF d = c THEN r ELSE call[d]
    BY <1>1
  <2> QED
    BY <1>1, <2>1, <2>2, <2>3 DEF CallsInOrder
<1>5. Alone'
  <2>1. SUFFICES ASSUME NEW d \in Calls \ {c}, Working(c)', Working(d)',
                        call'[c].at = call'[d].at
                 PROVE  call'[c].at \in crowded'
    <3>1. ASSUME NEW d \in Calls \ {c}, NEW e \in Calls \ {c}, Working(d)', Working(e)',
                 call'[d].at = call'[e].at, call'[d].at \notin crowded'
          PROVE  d = e
      BY <1>1, <1>2, <3>1 DEF MountsInv, Alone, Advances
    <3> QED
      BY <3>1 DEF Alone
  <2>2. Working(d) /\ call[d].at = r.at
    BY <1>1, <1>2, <2>1
  <2>3. r.pc \in {"look", "prepare", "sshfs", "register", "lookUp", "fusermount", "lazy",
                  "forget"}
    BY <1>1, <2>1 DEF Working
  <2>4. CASE Working(c) /\ call[c].at = r.at
    BY <1>1, <2>2, <2>4 DEF MountsInv, Alone, Advances
  <2>5. CASE \A e \in Calls \ {c} : Working(e) /\ call[e].at = r.at => r.at \in crowded'
    BY <1>1, <2>2, <2>5
  <2> QED
    BY <2>3, <2>4, <2>5 DEF Advances
<1> QED
  BY <1>3, <1>4, <1>5

\* A step that leaves the stacks alone keeps what is known of them.
LEMMA MovesStill ==
    ASSUME MountsInv, NEW c \in Calls, NEW r, Advances(c, r), Claims(c, r),
           UNCHANGED <<stack, dead, outside>>, exists \subseteq exists'
    PROVE  StackIsMounts' /\ Clear' /\ GoneIsGone' /\ RegistersMount'
<1>1. /\ call'[c] = r /\ Made \subseteq Made' /\ crowded \subseteq crowded'
      /\ \A d \in Calls \ {c} : call'[d] = call[d]
      /\ \A id \in Made : call'[id].at = call[id].at
  BY MovesOne DEF Advances
<1>2. StackIsMounts'
  BY <1>1 DEF MountsInv, StackIsMounts, PlaceOf
<1>3. Clear'
  <2>1. \A p \in Places : stack'[p] # <<>> => p \in exists'
    BY DEF MountsInv, Clear
  <2>2. SUFFICES ASSUME NEW p \in Places \ crowded'
                 PROVE  /\ Len(stack[p]) <= 1
                        /\ \A d \in Calls : call'[d].at = p =>
                             /\ call'[d].pc = "prepare" => stack[p] = <<>> \/ DeadAt(p)
                             /\ call'[d].pc \in {"sshfs", "forget"} => stack[p] = <<>>
    BY <2>1 DEF Clear, At, DeadAt, Top
  <2>3. p \in Places \ crowded
    BY <1>1
  <2>4. Len(stack[p]) <= 1
    BY <2>3 DEF MountsInv, Clear
  <2>5. ASSUME NEW d \in Calls \ {c}, call'[d].at = p
        PROVE  /\ call'[d].pc = "prepare" => stack[p] = <<>> \/ DeadAt(p)
               /\ call'[d].pc \in {"sshfs", "forget"} => stack[p] = <<>>
    BY <1>1, <2>3, <2>5 DEF MountsInv, Clear, At
  <2>6. ASSUME call'[c].at = p
        PROVE  /\ call'[c].pc = "prepare" => stack[p] = <<>> \/ DeadAt(p)
               /\ call'[c].pc \in {"sshfs", "forget"} => stack[p] = <<>>
    BY <1>1, <2>6 DEF Claims
  <2> QED
    BY <2>4, <2>5, <2>6
<1>4. \A id : Mounted(id)' <=> Mounted(id)
  BY DEF Mounted
<1>5. GoneIsGone'
  <2>1. SUFFICES ASSUME NEW d \in Calls, call'[d].pc = "looking", NEW id \in call'[d].gone,
                        Mounted(id), id \notin dead
                 PROVE  call'[id].at \in crowded'
    BY <1>4 DEF GoneIsGone, At, PlaceOf
  <2>2. id \in Made
    BY <1>1, <2>1 DEF MountsInv, CallsInOrder, Advances
  <2>3. call[id].at \in crowded'
    BY <1>1, <2>1 DEF MountsInv, GoneIsGone, Claims, At, PlaceOf
  <2> QED
    BY <1>1, <2>2, <2>3
<1>6. RegistersMount'
  BY <1>1, <1>4 DEF MountsInv, RegistersMount, Claims, At, PlaceOf
<1> QED
  BY <1>2, <1>3, <1>5, <1>6

\* The rows after a step of c: its own is made, those of its place are forgotten,
\* and no other goes that has a mount to lose.
RowsFollow(c) ==
    /\ call[c].pc = "register" => c \in table'
    /\ call[c].pc = "forget" => \A id \in table' : PlaceOf(id) # call[c].at
    /\ \A id \in table' \ table : id = c /\ call[c].pc = "register"
    /\ \A id \in table \ table' : ~Mounted(id) \/ id \in dead \/ PlaceOf(id) \in crowded

\* Such a step, the stacks left alone, keeps rows and mounts in agreement.
LEMMA MovesAgree ==
    ASSUME MountsInv, NEW c \in Calls, NEW r, Advances(c, r),
           UNCHANGED <<stack, dead, outside>>, RowsFollow(c)
    PROVE  TableIsWhatIsMounted'
<1>1. /\ call'[c] = r /\ crowded \subseteq crowded'
      /\ \A d \in Calls \ {c} : call'[d] = call[d]
      /\ \A id \in Made : call'[id].at = call[id].at
  BY MovesOne DEF Advances
<1>2. \A id : Mounted(id)' <=> Mounted(id)
  BY DEF Mounted
<1>3. \A id \in Calls : Mounted(id) => id \in Made
  BY MountedIs DEF MountsInv, StackIsMounts
<1>5. NoneOutOfReach'
  <2>1. SUFFICES ASSUME NEW id \in Calls, Mounted(id), id \notin dead,
                        call'[id].at \notin crowded', id \notin table'
                 PROVE  call'[id].pc = "register"
    BY <1>2 DEF NoneOutOfReach, At, PlaceOf
  <2>2. call[id].at \notin crowded
    BY <1>1, <1>3, <2>1
  <2>3. id \notin table
    BY <2>1, <2>2 DEF RowsFollow, PlaceOf
  <2>4. call[id].pc = "register"
    BY <2>1, <2>2, <2>3 DEF MountsInv, TableIsWhatIsMounted, NoneOutOfReach, At, PlaceOf
  <2>5. id # c
    BY <2>1, <2>4 DEF RowsFollow
  <2> QED
    BY <1>1, <2>4, <2>5
<1>6. RowsOfOwnUnmountsGo'
  <2>1. SUFFICES ASSUME NEW id \in table', ~Mounted(id), id \notin outside,
                        call'[id].at \notin crowded'
                 PROVE  \E d \in Calls : call'[d].pc = "forget" /\ call'[d].at = call'[id].at
    BY <1>2 DEF RowsOfOwnUnmountsGo, At, PlaceOf
  <2>2. CASE id \notin table
    <3>1. id = c /\ At(c, "register")
      BY <2>1, <2>2 DEF RowsFollow, At
    <3>2. c \in Made
      BY <3>1 DEF MountsInv, CallsInOrder, Made, Since, At
    <3>3. Mounted(c) \/ c \in outside \/ call[c].at \in crowded
      BY <3>1 DEF MountsInv, RegistersMount, PlaceOf
    <3> QED
      BY <1>1, <2>1, <3>1, <3>2, <3>3
  <2>3. CASE id \in table
    <3>1. id \in Made /\ call'[id].at = call[id].at
      BY <1>1, <2>3 DEF MountsInv, RowsAreMounts
    <3>2. PICK d \in Calls : call[d].pc = "forget" /\ call[d].at = call[id].at
      BY <1>1, <2>1, <2>3, <3>1 DEF MountsInv, TableIsWhatIsMounted, RowsOfOwnUnmountsGo, At, PlaceOf
    <3>3. d # c
      BY <2>1, <3>2 DEF RowsFollow, PlaceOf
    <3> QED
      BY <1>1, <3>1, <3>2, <3>3
  <2> QED
    BY <2>2, <2>3
<1> QED
  BY <1>5, <1>6 DEF TableIsWhatIsMounted

-----------------------------------------------------------------------------
(* The actions that leave the stacks and the rows alone *)

\* What the rest of the state must be after a step that leaves the stacks alone,
\* and after one that leaves the rows alone too.
Still ==
    /\ UNCHANGED <<stack, dead, outside>>
    /\ exists \subseteq exists' /\ exists' \subseteq Places
    /\ tools' = tools /\ available' \in BOOLEAN /\ loading' \in BOOLEAN
    /\ table' \subseteq Made' /\ activeMounts' \subseteq Made /\ holder' \in Calls \union {0}

Quiet ==
    /\ UNCHANGED <<stack, dead, outside, table>>
    /\ exists \subseteq exists' /\ exists' \subseteq Places
    /\ tools' = tools /\ available' \in BOOLEAN /\ loading' \in BOOLEAN
    /\ activeMounts' \subseteq Made /\ holder' \in Calls \union {0}

LEMMA StillStep ==
    ASSUME MountsInv, NEW c \in Calls, NEW r, Advances(c, r), Claims(c, r), Still, RowsFollow(c)
    PROVE  MountsInv'
<1>1. /\ call' \in [Calls -> CallType] /\ Made \subseteq Made' /\ Made' \subseteq Calls
      /\ \A d \in Calls : Working(d)' => call'[d].at \in Places
      /\ CallsInOrder' /\ Alone'
  BY MovesOne, MovesCalls
<1>2. TypeOK'
  <2>1. /\ tools \subseteq Tools /\ stack \in [Places -> Seq(Calls)] /\ dead \subseteq Calls
        /\ outside \subseteq Calls
    BY DEF MountsInv, TypeOK
  <2> QED
    BY <1>1, <2>1 DEF TypeOK, Still, Advances
<1>3. RowsAreMounts'
  BY <1>1 DEF RowsAreMounts, Still
<1>4. StackIsMounts' /\ Clear' /\ GoneIsGone' /\ RegistersMount'
  BY MovesStill DEF Still
<1>5. TableIsWhatIsMounted'
  BY MovesAgree DEF Still
<1> QED
  BY <1>1, <1>2, <1>3, <1>4, <1>5 DEF MountsInv

LEMMA QuietStep ==
    ASSUME MountsInv, NEW c \in Calls, NEW r, Advances(c, r), Claims(c, r), Quiet,
           call[c].pc \notin {"register", "forget"}
    PROVE  MountsInv'
<1>1. RowsFollow(c)
  BY DEF RowsFollow, Quiet
<1>2. Still
  BY MovesOne DEF Still, Quiet, MountsInv, RowsAreMounts
<1> QED
  BY <1>1, <1>2, StillStep

\* A record at another step, and with its path validated.
LEMMA RecordIs ==
    ASSUME NEW r \in CallType, NEW s \in Steps
    PROVE  /\ [r EXCEPT !.pc = s] \in CallType
           /\ [r EXCEPT !.pc = s, !.path = Nowhere] \in CallType
           /\ [r EXCEPT !.pc = s].op = r.op /\ [r EXCEPT !.pc = s].at = r.at
           /\ [r EXCEPT !.pc = s].left = r.left /\ [r EXCEPT !.pc = s].gone = r.gone
           /\ [r EXCEPT !.pc = s].pc = s
BY DEF CallType

\* A call's record.
LEMMA CallIs ==
    ASSUME MountsInv, NEW c \in Calls
    PROVE  /\ call[c] \in CallType
           /\ call[c].op = "mount" => call[c].at \in Places
           /\ call[c].left \union call[c].gone \subseteq Made
           /\ call[c].pc \notin Asking => call[c].gone = {}
           /\ Working(c) => call[c].at \in Places
           /\ \A s \in Steps : [call[c] EXCEPT !.pc = s] \in CallType
           /\ crowded \subseteq Places
<1>1. call[c] \in CallType
  BY DEF MountsInv, TypeOK
<1>2. \A s \in Steps : [call[c] EXCEPT !.pc = s] \in CallType
  BY <1>1, RecordIs
<1> QED
  BY <1>1, <1>2 DEF MountsInv, TypeOK, CallsInOrder

\* The mutual exclusion of the operations and their steps.
LEMMA StepOf ==
    ASSUME MountsInv, NEW c \in Calls
    PROVE  /\ call[c].pc \in {"look", "prepare", "sshfs", "register"} => call[c].op = "mount"
           /\ call[c].pc \in {"lookUp", "fusermount", "lazy", "forget", "find", "snapshot",
                              "status", "idle"} => call[c].op # "mount" /\ c \notin Made
           /\ call[c].pc \in {"look", "prepare", "sshfs", "gate"} => c \notin Made
BY DEF MountsInv, CallsInOrder, Made, Since

\* A call that only goes on to its step s.
LEMMA StepMoves ==
    ASSUME MountsInv, NEW c \in Calls, NEW s \in Steps, Step(c, s), crowded' = crowded,
           call[c].op = "mount" => s \in {"gate", "look", "prepare", "sshfs"} \union Since,
           s \in {"look", "prepare", "sshfs", "register"} => call[c].op = "mount",
           c \in Made => s \in Since, call[c].pc \notin Asking \/ s = "done",
           s \in {"look", "prepare", "sshfs", "register", "lookUp", "fusermount", "lazy",
                  "forget"} => Working(c)
    PROVE  Advances(c, [call[c] EXCEPT !.pc = s])
<1> DEFINE r == [call[c] EXCEPT !.pc = s]
<1>1. /\ r \in CallType /\ r.op = call[c].op /\ r.at = call[c].at /\ r.pc = s
      /\ r.left = call[c].left /\ r.gone = call[c].gone
  BY CallIs DEF CallType
<1>2. call' = [call EXCEPT ![c] = r]
  BY DEF Step, Becomes
<1>3. c \in Made => call[c].op = "mount"
  BY DEF Made
<1> HIDE DEF r
<1>4. Advances(c, r)
  BY <1>1, <1>2, <1>3, CallIs DEF Advances, Asking
<1> QED
  BY <1>4 DEF r

\* A call that comes to a place where another works notices it.
LEMMA EntersIs ==
    ASSUME MountsInv, NEW c \in Calls, NEW p \in Places, Enters(c, p)
    PROVE  /\ crowded \subseteq crowded' /\ crowded' \subseteq Places
           /\ \A d \in Calls \ {c} : Working(d) /\ call[d].at = p => p \in crowded'
BY DEF Enters, MountsInv, TypeOK

\* A call that comes to the place p.
LEMMA EntersMoves ==
    ASSUME MountsInv, NEW c \in Calls, NEW p \in Places, Enters(c, p), c \notin Made,
           NEW r \in CallType, Becomes(c, r), r.at = p,
           \/ r.op = "mount" /\ r.pc = "look"
           \/ r.op # "mount" /\ r.pc = "lookUp",
           r.left \subseteq Made, r.gone = {}
    PROVE  Advances(c, r) /\ Claims(c, r)
BY EntersIs DEF Advances, Claims, Becomes

LEMMA CheckStatusStep == ASSUME MountsInv, NEW c \in Calls, CheckStatus(c) PROVE MountsInv'
<1>1. /\ Step(c, "refresh") /\ crowded' = crowded /\ call[c].pc = "status"
      /\ available' \in BOOLEAN /\ UNCHANGED <<system, table, holder, activeMounts, loading>>
  BY DEF CheckStatus, At
<1> DEFINE r == [call[c] EXCEPT !.pc = "refresh"]
<1>2. Advances(c, r)
  BY <1>1, StepOf, StepMoves DEF Steps, Since, Asking
<1>3. Claims(c, r)
  BY CallIs DEF Claims, CallType
<1>4. Quiet
  BY <1>1 DEF Quiet, system, MountsInv, TypeOK, RowsAreMounts
<1> QED
  BY <1>1, <1>2, <1>3, <1>4, QuietStep

\* A press starts a call that was idle.
LEMMA PressStep ==
    ASSUME MountsInv, NEW c \in Calls, NEW r \in CallType, Begin(c, r), loading' \in BOOLEAN,
           \/ r.pc = "gate" /\ r.op = "mount" /\ r.at \in Places /\ crowded' = crowded
           \/ r.pc \in {"gate", "find"} /\ r.op # "mount" /\ crowded' = crowded
           \/ r.pc = "lookUp" /\ r.op # "mount" /\ r.at \in Places /\ Enters(c, r.at),
           r.left \subseteq Made, r.gone = {}
    PROVE  MountsInv'
<1>1. /\ Becomes(c, r) /\ call[c] = Idle
      /\ UNCHANGED <<available, system, table, holder, activeMounts>>
  BY DEF Begin
<1>2. call[c].pc = "idle" /\ c \notin Made /\ crowded \subseteq Places
  BY <1>1, CallIs DEF Idle, Made, Since
<1>3. Advances(c, r) /\ Claims(c, r)
  <2>1. CASE r.pc = "lookUp" /\ r.op # "mount" /\ r.at \in Places /\ Enters(c, r.at)
    BY <1>1, <1>2, <2>1, EntersMoves
  <2>2. CASE /\ r.pc \in {"gate", "find"} /\ crowded' = crowded
             /\ r.op = "mount" => r.at \in Places /\ r.pc = "gate"
    BY <1>1, <1>2, <2>2 DEF Advances, Claims, Becomes, Asking
  <2> QED
    BY <2>1, <2>2
<1>4. Quiet
  BY <1>1 DEF Quiet, system, MountsInv, TypeOK, RowsAreMounts
<1> QED
  BY <1>2, <1>3, <1>4, QuietStep

LEMMA UserStep == ASSUME MountsInv, NEW c \in Calls, User(c) PROVE MountsInv'
<1>0. /\ Idle \in CallType /\ Idle.left = {} /\ Idle.gone = {} /\ Idle.at = Nowhere
  BY DEF Idle, CallType, Ops, Steps
<1>1. ASSUME NEW p \in Places, NEW path \in Paths, PressMount(c, p, path)
      PROVE  MountsInv'
  <2> DEFINE r == [Idle EXCEPT !.op = "mount", !.pc = "gate", !.at = p, !.path = path]
  <2>1. /\ r \in CallType /\ r.pc = "gate" /\ r.op = "mount" /\ r.at \in Places
        /\ r.left = {} /\ r.gone = {}
    BY <1>0 DEF CallType, Ops, Steps, Idle
  <2>2. Begin(c, r) /\ loading' \in BOOLEAN /\ crowded' = crowded
    BY <1>1 DEF PressMount, MountsInv, TypeOK
  <2> HIDE DEF r
  <2> QED
    BY <2>1, <2>2, PressStep
<1>2. CASE PressUnmountAll(c)
  <2> DEFINE r == [Idle EXCEPT !.op = "all", !.pc = "gate"]
  <2>1. r \in CallType /\ r.pc = "gate" /\ r.op # "mount" /\ r.left = {} /\ r.gone = {}
    BY <1>0 DEF CallType, Ops, Steps, Idle
  <2>2. Begin(c, r) /\ loading' \in BOOLEAN /\ crowded' = crowded
    BY <1>2 DEF PressUnmountAll, MountsInv, TypeOK
  <2> HIDE DEF r
  <2> QED
    BY <2>1, <2>2, PressStep
<1>3. ASSUME NEW id \in Calls, PressUnmount(c, id) PROVE MountsInv'
  <2> DEFINE r == [Idle EXCEPT !.op = "unmount", !.pc = "lookUp", !.at = PlaceOf(id)]
  <2>0. PlaceOf(id) \in Places
    BY <1>3, CallIs DEF PressUnmount, MountsInv, RowsAreMounts, Made, PlaceOf
  <2>1. /\ r \in CallType /\ r.pc = "lookUp" /\ r.op # "mount" /\ r.at = PlaceOf(id)
        /\ r.left = {} /\ r.gone = {}
    BY <1>0, <2>0 DEF CallType, Ops, Steps, Idle
  <2>2. Begin(c, r) /\ loading' \in BOOLEAN /\ Enters(c, PlaceOf(id))
    BY <1>3 DEF PressUnmount
  <2> HIDE DEF r
  <2> QED
    BY <2>0, <2>1, <2>2, PressStep
<1>4. ASSUME NEW id \in Calls, UnmountById(c, id) PROVE MountsInv'
  <2> DEFINE r == [Idle EXCEPT !.op = "byId", !.pc = "find", !.left = {id}]
  <2>1. /\ r \in CallType /\ r.pc = "find" /\ r.op # "mount" /\ r.left = {id} /\ r.gone = {}
    BY <1>0 DEF CallType, Ops, Steps, Idle
  <2>2. Begin(c, r) /\ loading' \in BOOLEAN /\ crowded' = crowded /\ id \in Made
    BY <1>4 DEF UnmountById, MountsInv, RowsAreMounts
  <2> HIDE DEF r
  <2> QED
    BY <2>1, <2>2, PressStep
<1> QED
  BY <1>1, <1>2, <1>3, <1>4 DEF User

LEMMA PassGateStep == ASSUME MountsInv, NEW c \in Calls, PassGate(c) PROVE MountsInv'
<1>1. /\ call[c].pc = "gate" /\ loading' \in BOOLEAN
      /\ UNCHANGED <<available, system, table, holder, activeMounts>>
  BY DEF PassGate, At
<1>2. c \notin Made /\ Quiet
  BY <1>1, StepOf DEF Quiet, system, MountsInv, TypeOK, RowsAreMounts
<1>3. CASE call[c].op = "mount"
  <2> DEFINE r == [call[c] EXCEPT !.pc = "look"]
  <2>1. Step(c, "look") /\ Enters(c, call[c].at) /\ call[c].at \in Places
    BY <1>3, CallIs DEF PassGate
  <2>2. /\ Becomes(c, r) /\ r \in CallType /\ r.at = call[c].at /\ r.op = "mount"
        /\ r.pc = "look" /\ r.left \subseteq Made /\ r.gone = {}
    <3>1. "look" \in Steps
      BY DEF Steps
    <3>2. Becomes(c, r)
      BY <2>1 DEF Step
    <3>3. call[c] \in CallType /\ call[c].left \subseteq Made /\ call[c].gone = {}
      BY <1>1, CallIs DEF Asking
    <3>4. /\ r \in CallType /\ r.op = call[c].op /\ r.at = call[c].at
          /\ r.left = call[c].left /\ r.gone = call[c].gone /\ r.pc = "look"
      BY <3>1, <3>3, RecordIs
    <3> QED
      BY <1>3, <3>2, <3>3, <3>4
  <2> HIDE DEF r
  <2> QED
    BY <1>1, <1>2, <2>1, <2>2, EntersMoves, QuietStep
<1>4. CASE call[c].op # "mount"
  <2>1. Step(c, "snapshot") /\ crowded' = crowded
    BY <1>4 DEF PassGate
  <2>2. Advances(c, [call[c] EXCEPT !.pc = "snapshot"])
    BY <1>1, <1>2, <1>4, <2>1, StepMoves DEF Steps, Asking
  <2>3. Claims(c, [call[c] EXCEPT !.pc = "snapshot"])
    BY CallIs DEF Claims, CallType
  <2> QED
    BY <1>1, <1>2, <2>2, <2>3, QuietStep
<1> QED
  BY <1>3, <1>4

\* A call whose path is validated, or that is over.
LEMMA ForgetsPath ==
    ASSUME MountsInv, NEW c \in Calls, call[c].pc \in {"gate", "look"}, NEW s \in {"prepare", "done"},
           s = "prepare" => call[c].pc = "look",
           Becomes(c, [call[c] EXCEPT !.pc = s, !.path = Nowhere]), crowded' = crowded
    PROVE  Advances(c, [call[c] EXCEPT !.pc = s, !.path = Nowhere])
<1> DEFINE r == [call[c] EXCEPT !.pc = s, !.path = Nowhere]
<1>1. /\ r \in CallType /\ r.op = call[c].op /\ r.at = call[c].at /\ r.pc = s
      /\ r.left = call[c].left /\ r.gone = call[c].gone
  <2>1. s \in Steps
    BY DEF Steps
  <2>2. r \in CallType
    BY <2>1, CallIs, RecordIs
  <2> QED
    BY <2>2, CallIs DEF CallType
<1>2. c \notin Made /\ (s = "prepare" => call[c].op = "mount" /\ Working(c))
  BY StepOf DEF Working
<1> HIDE DEF r
<1>3. Becomes(c, r)
  BY DEF r
<1>4. Advances(c, r)
  BY <1>1, <1>2, <1>3, CallIs DEF Advances, Becomes, Since, Asking
<1> QED
  BY <1>4 DEF r

LEMMA AbandonStep == ASSUME MountsInv, NEW c \in Calls, Abandon(c) PROVE MountsInv'
<1> DEFINE r == [call[c] EXCEPT !.pc = "done", !.path = Nowhere]
<1>1. /\ call[c].pc = "gate" /\ Becomes(c, r) /\ crowded' = crowded
      /\ UNCHANGED <<available, system, table, holder, activeMounts, loading>>
  BY DEF Abandon, At
<1>2. Advances(c, r)
  BY <1>1, ForgetsPath
<1>3. Claims(c, r) /\ Quiet
  BY <1>1, CallIs DEF Claims, CallType, Quiet, system, MountsInv, TypeOK, RowsAreMounts
<1> QED
  BY <1>1, <1>2, <1>3, QuietStep

\* Where nothing is a mount point nothing is mounted, or nothing that lives.
LEMMA NotAMountPoint ==
    ASSUME MountsInv, NEW p \in Places, ~is_mount_point(p)
    PROVE  stack[p] = <<>> \/ DeadAt(p)
BY DEF is_mount_point, MountsInv, Clear

LEMMA LookBeforeMountStep == ASSUME MountsInv, NEW c \in Calls, LookBeforeMount(c) PROVE MountsInv'
<1>1. /\ call[c].pc = "look" /\ crowded' = crowded
      /\ UNCHANGED <<available, system, table, holder, activeMounts>> /\ loading' \in BOOLEAN
  BY DEF LookBeforeMount, At, MountsInv, TypeOK
<1>2. Quiet
  BY <1>1 DEF Quiet, system, MountsInv, TypeOK, RowsAreMounts
<1>3. CASE MayMount(c)
  <2> DEFINE r == [call[c] EXCEPT !.pc = "prepare", !.path = Nowhere]
  <2>1. Becomes(c, r)
    <3>1. r = [[call[c] EXCEPT !.path = Nowhere] EXCEPT !.pc = "prepare"]
      BY CallIs DEF CallType
    <3> QED
      BY <1>3, <3>1 DEF LookBeforeMount
  <2>2. Advances(c, r)
    BY <1>1, <2>1, ForgetsPath
  <2>3. stack[call[c].at] = <<>> \/ DeadAt(call[c].at)
    BY <1>1, <1>3, CallIs, NotAMountPoint DEF MayMount, Working
  <2>4. Claims(c, r)
    BY <2>3, CallIs DEF Claims, CallType
  <2> QED
    BY <1>1, <1>2, <2>2, <2>4, QuietStep
<1>4. CASE ~MayMount(c)
  <2> DEFINE r == [call[c] EXCEPT !.pc = "done", !.path = Nowhere]
  <2>1. Becomes(c, r)
    <3>1. r = [[call[c] EXCEPT !.path = Nowhere] EXCEPT !.pc = "done"]
      BY CallIs DEF CallType
    <3> QED
      BY <1>4, <3>1 DEF LookBeforeMount
  <2>2. Advances(c, r)
    BY <1>1, <2>1, ForgetsPath
  <2>3. Claims(c, r)
    BY CallIs DEF Claims, CallType
  <2> QED
    BY <1>1, <1>2, <2>2, <2>3, QuietStep
<1> QED
  BY <1>3, <1>4

LEMMA PrepareStep == ASSUME MountsInv, NEW c \in Calls, Prepare(c) PROVE MountsInv'
<1>1. /\ call[c].pc = "prepare" /\ call[c].op = "mount" /\ call[c].at \in Places
      /\ Working(c) /\ c \notin Made /\ crowded' = crowded
      /\ UNCHANGED <<available, tools, stack, dead, outside, table, holder, activeMounts>>
  <2>1. call[c].pc = "prepare"
    BY DEF Prepare, At
  <2> QED
    BY <2>1, CallIs, StepOf DEF Prepare, Working
<1>2. loading' \in BOOLEAN /\ exists \subseteq exists' /\ exists' \subseteq Places
  BY <1>1 DEF Prepare, ensure_directory_exists, End, MountsInv, TypeOK
<1>3. Quiet
  BY <1>1, <1>2 DEF Quiet, MountsInv, TypeOK, RowsAreMounts
<1>4. \/ Step(c, "done")
      \/ Step(c, "sshfs") /\ ~DeadAt(call[c].at)
  BY DEF Prepare, ensure_directory_exists, End
<1>5. ASSUME NEW s \in {"sshfs", "done"}, Step(c, s), s = "sshfs" => ~DeadAt(call[c].at)
      PROVE  MountsInv'
  <2> DEFINE r == [call[c] EXCEPT !.pc = s]
  <2>1. s \in Steps /\ s \in {"gate", "look", "prepare", "sshfs"} \union Since
    BY DEF Steps, Since
  <2>2. Advances(c, r)
    BY <1>1, <1>5, <2>1, StepMoves DEF Asking
  <2>3. r.at = call[c].at /\ r.pc = s
    BY <2>1, CallIs, RecordIs
  <2>4. call[c].at \notin crowded => stack[call[c].at] = <<>> \/ DeadAt(call[c].at)
    BY <1>1 DEF MountsInv, Clear, At
  <2> HIDE DEF r
  <2>5. Claims(c, r)
    BY <1>1, <1>5, <2>3, <2>4 DEF Claims
  <2> QED
    BY <1>1, <1>3, <2>2, <2>5, QuietStep
<1> QED
  BY <1>4, <1>5

\* unmount_sshfs of one place is over: the call goes on to another, or refreshes,
\* or ends.
LEMMA OverMoves ==
    ASSUME MountsInv, NEW c \in Calls, NEW ok \in BOOLEAN, Over(c, ok),
           call[c].pc \in {"lookUp", "fusermount", "lazy", "forget"}
    PROVE  /\ loading' \in BOOLEAN
           /\ \E r : Advances(c, r) /\ Claims(c, r)
<1>1. c \notin Made /\ call[c].op # "mount" /\ call[c] \in CallType
      /\ call[c].left \subseteq Made /\ call[c].gone = {} /\ Made \subseteq Calls
      /\ crowded \subseteq Places /\ loading \in BOOLEAN
  BY CallIs, StepOf DEF Made, Asking, MountsInv, TypeOK
<1>2. CASE call[c].op = "all" /\ call[c].left # {}
  <2>1. PICK id \in call[c].left :
           /\ Becomes(c, [call[c] EXCEPT !.pc = "lookUp", !.at = PlaceOf(id),
                                         !.left = @ \ {id}, !.failed = @ \/ ~ok])
           /\ Enters(c, PlaceOf(id))
           /\ UNCHANGED loading
    BY <1>2 DEF Over
  <2> DEFINE r == [call[c] EXCEPT !.pc = "lookUp", !.at = PlaceOf(id),
                                  !.left = @ \ {id}, !.failed = @ \/ ~ok]
  <2>2. id \in Calls /\ id \in Made /\ PlaceOf(id) \in Places
    BY <1>1, <2>1, CallIs DEF Made, PlaceOf
  <2>3. /\ r \in CallType /\ r.at = PlaceOf(id) /\ r.op # "mount" /\ r.pc = "lookUp"
        /\ r.left = call[c].left \ {id} /\ r.gone = call[c].gone
    BY <1>1, <2>2 DEF CallType, Steps
  <2>4. Becomes(c, r) /\ Enters(c, PlaceOf(id))
    BY <2>1
  <2> HIDE DEF r
  <2>5. Advances(c, r) /\ Claims(c, r)
    BY <1>1, <2>2, <2>3, <2>4, EntersMoves
  <2> QED
    BY <1>1, <2>1, <2>5
<1>3. CASE ~(call[c].op = "all" /\ call[c].left # {}) /\ (ok \/ call[c].op = "all")
  <2> DEFINE r == [call[c] EXCEPT !.pc = "refresh", !.failed = @ \/ ~ok]
  <2>1. Becomes(c, r) /\ UNCHANGED <<loading, crowded>>
    BY <1>3 DEF Over
  <2>2. /\ r \in CallType /\ r.op # "mount" /\ r.pc = "refresh"
        /\ r.left = call[c].left /\ r.gone = call[c].gone
    BY <1>1 DEF CallType, Steps
  <2> HIDE DEF r
  <2>3. Advances(c, r) /\ Claims(c, r)
    BY <1>1, <2>1, <2>2 DEF Advances, Claims, Becomes, Asking
  <2> QED
    BY <1>1, <2>1, <2>3
<1>4. CASE ~(call[c].op = "all" /\ call[c].left # {}) /\ ~(ok \/ call[c].op = "all")
  <2> DEFINE r == [call[c] EXCEPT !.pc = "done"]
  <2>1. Step(c, "done") /\ loading' = FALSE /\ crowded' = crowded
    BY <1>4 DEF Over, End
  <2>2. Advances(c, r)
    BY <1>1, <2>1, StepMoves DEF Steps, Asking
  <2>3. Claims(c, r)
    BY <1>1 DEF Claims, CallType
  <2> QED
    BY <2>1, <2>2, <2>3
<1> QED
  BY <1>2, <1>3, <1>4

LEMMA FindStep == ASSUME MountsInv, NEW c \in Calls, Find(c) PROVE MountsInv'
<1>1. call[c].pc = "find" /\ UNCHANGED <<available, system, table, holder, activeMounts>>
  BY DEF Find, At
<1>2. /\ c \notin Made /\ call[c].op # "mount" /\ call[c] \in CallType
      /\ call[c].left \subseteq Made /\ call[c].gone = {} /\ Made \subseteq Calls
      /\ loading \in BOOLEAN
  BY <1>1, CallIs, StepOf DEF Made, Asking, MountsInv, TypeOK
<1>3. ASSUME NEW id \in call[c].left, id \in table,
             Becomes(c, [call[c] EXCEPT !.pc = "lookUp", !.at = PlaceOf(id), !.left = {}]),
             Enters(c, PlaceOf(id)), UNCHANGED loading
      PROVE  MountsInv'
  <2> DEFINE r == [call[c] EXCEPT !.pc = "lookUp", !.at = PlaceOf(id), !.left = {}]
  <2>2. id \in Calls /\ id \in Made /\ PlaceOf(id) \in Places
    BY <1>2, <1>3, CallIs DEF Made, PlaceOf
  <2>3. /\ r \in CallType /\ r.at = PlaceOf(id) /\ r.op # "mount" /\ r.pc = "lookUp"
        /\ r.left = {} /\ r.gone = call[c].gone
    BY <1>2, <2>2 DEF CallType, Steps
  <2>4. Becomes(c, r)
    BY <1>3
  <2> HIDE DEF r
  <2>5. Advances(c, r) /\ Claims(c, r)
    BY <1>2, <1>3, <2>2, <2>3, <2>4, EntersMoves
  <2>6. Quiet
    BY <1>1, <1>2, <1>3 DEF Quiet, system, MountsInv, TypeOK, RowsAreMounts
  <2> QED
    BY <1>1, <2>5, <2>6, QuietStep
<1>4. CASE End(c) /\ UNCHANGED crowded
  <2>1. Step(c, "done") /\ loading' = FALSE /\ crowded' = crowded
    BY <1>4 DEF End
  <2>2. Advances(c, [call[c] EXCEPT !.pc = "done"])
    BY <1>2, <2>1, StepMoves DEF Steps, Asking
  <2>3. Claims(c, [call[c] EXCEPT !.pc = "done"])
    BY <1>2 DEF Claims, CallType
  <2>4. Quiet
    BY <1>1, <2>1 DEF Quiet, system, MountsInv, TypeOK, RowsAreMounts
  <2> QED
    BY <1>1, <2>2, <2>3, <2>4, QuietStep
<1> QED
  BY <1>3, <1>4 DEF Find

LEMMA SnapshotStep == ASSUME MountsInv, NEW c \in Calls, Snapshot(c) PROVE MountsInv'
<1>1. call[c].pc = "snapshot" /\ UNCHANGED <<available, system, table, holder, activeMounts, loading>>
  BY DEF Snapshot, At
<1>2. /\ c \notin Made /\ call[c].op # "mount" /\ call[c] \in CallType
      /\ call[c].left \subseteq Made /\ call[c].gone = {} /\ Made \subseteq Calls
      /\ table \subseteq Made
  BY <1>1, CallIs, StepOf DEF Made, Asking, MountsInv, RowsAreMounts
<1>3. Quiet
  BY <1>1 DEF Quiet, system, MountsInv, TypeOK, RowsAreMounts
<1>4. ASSUME NEW id \in table,
             Becomes(c, [call[c] EXCEPT !.pc = "lookUp", !.at = PlaceOf(id),
                                        !.left = table \ {id}]),
             Enters(c, PlaceOf(id))
      PROVE  MountsInv'
  <2> DEFINE r == [call[c] EXCEPT !.pc = "lookUp", !.at = PlaceOf(id), !.left = table \ {id}]
  <2>2. id \in Calls /\ id \in Made /\ PlaceOf(id) \in Places
    BY <1>2, <1>4, CallIs DEF Made, PlaceOf
  <2>3. /\ r \in CallType /\ r.at = PlaceOf(id) /\ r.op # "mount" /\ r.pc = "lookUp"
        /\ r.left = table \ {id} /\ r.gone = call[c].gone
    BY <1>2, <2>2 DEF CallType, Steps
  <2>4. Becomes(c, r)
    BY <1>4
  <2> HIDE DEF r
  <2>5. Advances(c, r) /\ Claims(c, r)
    BY <1>2, <1>4, <2>2, <2>3, <2>4, EntersMoves
  <2> QED
    BY <1>1, <1>3, <2>5, QuietStep
<1>5. CASE Step(c, "refresh") /\ UNCHANGED crowded
  <2>1. Advances(c, [call[c] EXCEPT !.pc = "refresh"])
    BY <1>1, <1>2, <1>5, StepMoves DEF Steps, Asking
  <2>2. Claims(c, [call[c] EXCEPT !.pc = "refresh"])
    BY <1>2 DEF Claims, CallType
  <2> QED
    BY <1>1, <1>3, <2>1, <2>2, QuietStep
<1> QED
  BY <1>4, <1>5 DEF Snapshot

\* A call of an unmount goes on to its next program, or is over with this place.
LEMMA UnmountsOn ==
    ASSUME MountsInv, NEW c \in Calls, call[c].pc \in {"lookUp", "fusermount", "lazy"},
           UNCHANGED <<available, system, table, holder, activeMounts>>,
           \/ Over(c, FALSE)
           \/ Step(c, "fusermount") /\ UNCHANGED <<loading, crowded>>
           \/ Step(c, "lazy") /\ UNCHANGED <<loading, crowded>>
    PROVE  MountsInv'
<1>1. c \notin Made /\ call[c].op # "mount" /\ Working(c) /\ call[c] \in CallType
  BY CallIs, StepOf DEF Working
<1>2. ASSUME NEW s \in {"fusermount", "lazy"}, Step(c, s), UNCHANGED <<loading, crowded>>
      PROVE  /\ loading' \in BOOLEAN
             /\ \E r : Advances(c, r) /\ Claims(c, r)
  <2>1. s \in Steps
    BY DEF Steps
  <2>2. Advances(c, [call[c] EXCEPT !.pc = s])
    BY <1>1, <1>2, <2>1, StepMoves DEF Asking
  <2>3. Claims(c, [call[c] EXCEPT !.pc = s])
    BY <1>1, <2>1, RecordIs DEF Claims
  <2> QED
    BY <1>2, <2>2, <2>3 DEF MountsInv, TypeOK
<1>3. loading' \in BOOLEAN /\ \E r : Advances(c, r) /\ Claims(c, r)
  BY <1>2, OverMoves
<1>4. Quiet
  BY <1>3 DEF Quiet, system, MountsInv, TypeOK, RowsAreMounts
<1> QED
  BY <1>3, <1>4, QuietStep

LEMMA LookBeforeUnmountStep == ASSUME MountsInv, NEW c \in Calls, LookBeforeUnmount(c) PROVE MountsInv'
BY UnmountsOn DEF LookBeforeUnmount, At

-----------------------------------------------------------------------------
(* The refresh *)

LEMMA RefreshStep == ASSUME MountsInv, NEW c \in Calls, Refresh(c) PROVE MountsInv'
<1> DEFINE r == [call[c] EXCEPT !.pc = "looking", !.left = table,
                                !.asked = {id \in table : ~Mounted(id)}]
<1>1. /\ call[c].pc = "refresh" /\ Becomes(c, r) /\ holder' = c
      /\ UNCHANGED <<available, system, table, activeMounts, loading, crowded>>
  BY DEF Refresh, At
<1>2. /\ call[c] \in CallType /\ call[c].left \subseteq Made /\ call[c].gone = {}
      /\ Made \subseteq Calls /\ table \subseteq Made /\ crowded \subseteq Places
      /\ call[c].op = "mount" => call[c].at \in Places
  BY <1>1, CallIs DEF Made, Asking, MountsInv, RowsAreMounts
<1>3. /\ r \in CallType /\ r.pc = "looking" /\ r.left = table /\ r.gone = {}
      /\ r.op = call[c].op /\ r.at = call[c].at
  BY <1>2 DEF CallType, Steps
<1> HIDE DEF r
<1>4. Advances(c, r)
  <2>1. "looking" \in Since /\ "looking" \in Asking
    BY DEF Since, Asking
  <2>2. c \in Made => r.op = "mount"
    BY <1>3 DEF Made
  <2> QED
    BY <1>1, <1>2, <1>3, <2>1, <2>2 DEF Advances, Becomes
<1>5. Claims(c, r)
  BY <1>3 DEF Claims
<1>6. Quiet
  BY <1>1 DEF Quiet, system, MountsInv, TypeOK, RowsAreMounts
<1> QED
  BY <1>1, <1>4, <1>5, <1>6, QuietStep

\* A mount whose place is no mount point is gone, where one call works at a time.
LEMMA LooksGone ==
    ASSUME MountsInv, NEW id \in Made, ~is_mount_point(PlaceOf(id))
    PROVE  ~Mounted(id) \/ id \in dead \/ PlaceOf(id) \in crowded
<1>1. SUFFICES ASSUME Mounted(id), PlaceOf(id) \notin crowded PROVE id \in dead
  OBVIOUS
<1>2. PICK p \in Places : \E n \in 1..Len(stack[p]) : stack[p][n] = id
  BY <1>1, MountedIs DEF MountsInv, Made
<1> PICK n \in 1..Len(stack[p]) : stack[p][n] = id
  BY <1>2
<1>3. PlaceOf(id) = p
  BY <1>2 DEF MountsInv, StackIsMounts
<1>4. stack[p] \in Seq(Calls)
  BY DEF MountsInv, TypeOK
<1>5. Len(stack[p]) \in Nat /\ Len(stack[p]) <= 1 /\ stack[p] # <<>>
  BY <1>1, <1>2, <1>3, <1>4, EmptyStack DEF MountsInv, Clear
<1>6. n = Len(stack[p])
  BY <1>2, <1>5
<1>7. DeadAt(p)
  BY <1>3, <1>5, NotAMountPoint
<1> QED
  BY <1>2, <1>6, <1>7 DEF DeadAt, Top

LEMMA LookAtMountStep ==
    ASSUME MountsInv, NEW c \in Calls, NEW id \in Calls, LookAtMount(c, id) PROVE MountsInv'
<1> DEFINE r == [call[c] EXCEPT !.left = @ \ {id},
                     !.gone = IF is_mount_point(PlaceOf(id)) THEN @ ELSE @ \union {id}]
<1>1. /\ call[c].pc = "looking" /\ id \in call[c].left /\ Becomes(c, r)
      /\ UNCHANGED <<available, system, table, holder, activeMounts, loading, crowded>>
  BY DEF LookAtMount, At
<1>2. /\ call[c] \in CallType /\ call[c].left \subseteq Made /\ call[c].gone \subseteq Made
      /\ Made \subseteq Calls /\ crowded \subseteq Places
      /\ call[c].op = "mount" => call[c].at \in Places
  BY CallIs DEF Made
<1>3. /\ r \in CallType /\ r.pc = "looking" /\ r.left = call[c].left \ {id}
      /\ r.gone = IF is_mount_point(PlaceOf(id)) THEN call[c].gone ELSE call[c].gone \union {id}
      /\ r.op = call[c].op /\ r.at = call[c].at
  BY <1>1, <1>2 DEF CallType
<1> HIDE DEF r
<1>4. Advances(c, r)
  <2>1. "looking" \in Since /\ "looking" \in Asking
    BY DEF Since, Asking
  <2>2. c \in Made => r.op = "mount"
    BY <1>3 DEF Made
  <2>3. r.left \union r.gone \subseteq Made
    BY <1>1, <1>2, <1>3
  <2> QED
    BY <1>1, <1>2, <1>3, <2>1, <2>2, <2>3 DEF Advances, Becomes
<1>5. Claims(c, r)
  <2>1. \A d \in call[c].gone : ~Mounted(d) \/ d \in dead \/ PlaceOf(d) \in crowded
    BY <1>1 DEF MountsInv, GoneIsGone, At
  <2>2. ~is_mount_point(PlaceOf(id)) => ~Mounted(id) \/ id \in dead \/ PlaceOf(id) \in crowded
    BY <1>1, <1>2, LooksGone
  <2>3. \A d \in r.gone : ~Mounted(d) \/ d \in dead \/ PlaceOf(d) \in crowded'
    BY <1>1, <1>3, <2>1, <2>2
  <2> QED
    BY <1>3, <2>3 DEF Claims
<1>6. Quiet
  BY <1>1 DEF Quiet, system, MountsInv, TypeOK, RowsAreMounts
<1> QED
  BY <1>1, <1>4, <1>5, <1>6, QuietStep

LEMMA RetainStep == ASSUME MountsInv, NEW c \in Calls, Retain(c) PROVE MountsInv'
<1> DEFINE r == [call[c] EXCEPT !.pc = "show", !.gone = table']
<1>1. /\ call[c].pc = "looking" /\ Becomes(c, r) /\ holder' = 0
      /\ table' = table \ call[c].gone
      /\ UNCHANGED <<available, system, activeMounts, loading, crowded>>
  BY DEF Retain, At
<1>2. /\ call[c] \in CallType /\ call[c].left \subseteq Made
      /\ Made \subseteq Calls /\ table \subseteq Made /\ crowded \subseteq Places
      /\ call[c].op = "mount" => call[c].at \in Places
  BY CallIs DEF Made, MountsInv, RowsAreMounts
<1>3. /\ r \in CallType /\ r.pc = "show" /\ r.left = call[c].left /\ r.gone = table'
      /\ r.op = call[c].op /\ r.at = call[c].at
  BY <1>1, <1>2 DEF CallType, Steps
<1> HIDE DEF r
<1>4. Advances(c, r)
  <2>1. "show" \in Since /\ "show" \in Asking
    BY DEF Since, Asking
  <2>2. c \in Made => r.op = "mount"
    BY <1>3 DEF Made
  <2> QED
    BY <1>1, <1>2, <1>3, <2>1, <2>2 DEF Advances, Becomes
<1>5. Claims(c, r)
  BY <1>3 DEF Claims
<1>6. Still
  BY <1>1, <1>2, <1>4, MovesOne DEF Still, system, MountsInv, TypeOK, RowsAreMounts
<1>7. RowsFollow(c)
  BY <1>1 DEF RowsFollow, MountsInv, GoneIsGone, At
<1> QED
  BY <1>4, <1>5, <1>6, <1>7, StillStep

LEMMA ShowStep == ASSUME MountsInv, NEW c \in Calls, Show(c) PROVE MountsInv'
<1>1. /\ call[c].pc = "show" /\ Step(c, "done") /\ activeMounts' = call[c].gone
      /\ UNCHANGED <<available, system, table, holder, crowded>>
      /\ loading' \in BOOLEAN
  BY DEF Show, End, At, MountsInv, TypeOK
<1>2. Advances(c, [call[c] EXCEPT !.pc = "done"])
  BY <1>1, StepMoves DEF Steps, Since
<1>3. Claims(c, [call[c] EXCEPT !.pc = "done"])
  BY CallIs DEF Claims, CallType
<1>4. Quiet
  BY <1>1, CallIs DEF Quiet, system, MountsInv, TypeOK
<1> QED
  BY <1>1, <1>2, <1>3, <1>4, QuietStep

-----------------------------------------------------------------------------
(* Rows are made and forgotten *)

LEMMA RegisterStep == ASSUME MountsInv, NEW c \in Calls, Register(c) PROVE MountsInv'
<1> DEFINE r == [call[c] EXCEPT !.pc = "refresh"]
<1>1. /\ call[c].pc = "register" /\ Step(c, "refresh") /\ table' = table \union {c}
      /\ UNCHANGED <<available, system, holder, activeMounts, loading, crowded>>
  BY DEF Register, At
<1>2. c \in Made /\ table \subseteq Made
  BY <1>1, StepOf DEF Made, Since, MountsInv, RowsAreMounts
<1>3. Advances(c, r)
  BY <1>1, StepMoves DEF Steps, Since, Asking
<1>4. Claims(c, r)
  BY CallIs DEF Claims, CallType
<1> HIDE DEF r
<1>5. Still
  BY <1>1, <1>2, <1>3, MovesOne DEF Still, system, MountsInv, TypeOK, RowsAreMounts
<1>6. RowsFollow(c)
  BY <1>1 DEF RowsFollow
<1> QED
  BY <1>3, <1>4, <1>5, <1>6, StillStep

LEMMA ForgetStep == ASSUME MountsInv, NEW c \in Calls, Forget(c) PROVE MountsInv'
<1>1. /\ call[c].pc = "forget" /\ Over(c, TRUE)
      /\ table' = {id \in table : PlaceOf(id) # call[c].at}
      /\ UNCHANGED <<available, system, holder, activeMounts>>
  BY DEF Forget, At
<1>2. PICK r : Advances(c, r) /\ Claims(c, r)
  BY <1>1, OverMoves
<1>3. loading' \in BOOLEAN
  BY <1>1, OverMoves
<1>4. Still
  BY <1>1, <1>2, <1>3, MovesOne DEF Still, system, MountsInv, TypeOK, RowsAreMounts
<1>5. ASSUME NEW id \in table, PlaceOf(id) = call[c].at, Mounted(id)
      PROVE  PlaceOf(id) \in crowded
  <2>1. id \in Calls
    BY DEF MountsInv, TypeOK
  <2>2. PICK p \in Places : \E n \in 1..Len(stack[p]) : stack[p][n] = id
    BY <1>5, <2>1, MountedIs DEF MountsInv
  <2>3. PlaceOf(id) = p
    BY <2>2 DEF MountsInv, StackIsMounts
  <2>4. stack[p] # <<>>
    BY <2>2, EmptyStack DEF MountsInv, TypeOK
  <2> QED
    BY <1>1, <1>5, <2>3, <2>4 DEF MountsInv, Clear
<1>6. RowsFollow(c)
  BY <1>1, <1>5 DEF RowsFollow
<1> QED
  BY <1>2, <1>4, <1>6, StillStep

-----------------------------------------------------------------------------
(* Mounts are made *)

\* The stacks with c on top of that of p.
LEMMA Stacked ==
    ASSUME MountsInv, NEW c \in Calls, NEW p \in Places,
           stack' = [stack EXCEPT ![p] = Append(@, c)]
    PROVE  /\ stack' \in [Places -> Seq(Calls)]
           /\ \A q \in Places \ {p} : stack'[q] = stack[q]
           /\ Len(stack'[p]) = Len(stack[p]) + 1 /\ stack'[p] # <<>>
           /\ \A n \in 1..Len(stack'[p]) :
                 stack'[p][n] = IF n \in 1..Len(stack[p]) THEN stack[p][n] ELSE c
           /\ \A id \in Calls : Mounted(id)' <=> Mounted(id) \/ id = c
<1>1. stack \in [Places -> Seq(Calls)] /\ TypeOK
  BY DEF MountsInv, TypeOK
<1>2. stack'[p] = Append(stack[p], c) /\ \A q \in Places \ {p} : stack'[q] = stack[q]
  BY <1>1
<1>3. /\ Append(stack[p], c) \in Seq(Calls)
      /\ Len(Append(stack[p], c)) = Len(stack[p]) + 1
      /\ \A n \in 1..Len(stack[p]) : Append(stack[p], c)[n] = stack[p][n]
      /\ Append(stack[p], c)[Len(stack[p]) + 1] = c
      /\ Len(stack[p]) \in Nat
  BY <1>1, AppendProperties, EmptyStack
<1>4. stack' \in [Places -> Seq(Calls)]
  BY <1>1, <1>2, <1>3
<1>5. stack'[p] # <<>>
  BY <1>2, <1>3, EmptyStack
<1>6. \A n \in 1..Len(stack'[p]) :
         stack'[p][n] = IF n \in 1..Len(stack[p]) THEN stack[p][n] ELSE c
  BY <1>2, <1>3
<1>7. ASSUME NEW id \in Calls PROVE Mounted(id)' <=> Mounted(id) \/ id = c
  <2>1. /\ Mounted(id) <=> \E q \in Places : \E n \in 1..Len(stack[q]) : stack[q][n] = id
        /\ Mounted(id)' <=> \E q \in Places : \E n \in 1..Len(stack'[q]) : stack'[q][n] = id
    BY <1>1, <1>4, SomewhereIs DEF Mounted
  <2>2. (\E n \in 1..Len(stack'[p]) : stack'[p][n] = id)
          <=> (\E n \in 1..Len(stack[p]) : stack[p][n] = id) \/ id = c
    <3>1. \A n \in 1..Len(stack[p]) : n \in 1..Len(stack'[p])
      BY <1>2, <1>3
    <3>2. Len(stack[p]) + 1 \in 1..Len(stack'[p]) /\ Len(stack[p]) + 1 \notin 1..Len(stack[p])
      BY <1>2, <1>3
    <3> QED
      BY <1>6, <3>1, <3>2
  <2> QED
    BY <1>2, <2>1, <2>2
<1> QED
  BY <1>2, <1>3, <1>4, <1>5, <1>6, <1>7

LEMMA RunSshfsStep == ASSUME MountsInv, NEW c \in Calls, RunSshfs(c) PROVE MountsInv'
<1> DEFINE p == call[c].at
<1>1. /\ call[c].pc = "sshfs" /\ call[c].op = "mount" /\ p \in Places /\ Working(c)
      /\ c \notin Made /\ crowded' = crowded
      /\ UNCHANGED <<available, tools, exists, dead, outside, table, holder, activeMounts, crowded>>
  <2>1. call[c].pc = "sshfs"
    BY DEF RunSshfs, At
  <2> QED
    BY <2>1, CallIs, StepOf DEF RunSshfs, Working
<1>2. CASE End(c) /\ UNCHANGED stack
  <2> DEFINE r == [call[c] EXCEPT !.pc = "done"]
  <2>1. Step(c, "done") /\ loading' = FALSE
    BY <1>2 DEF End
  <2>2. Advances(c, r)
    BY <1>1, <2>1, StepMoves DEF Steps, Since, Asking
  <2>3. Claims(c, r)
    BY CallIs DEF Claims, CallType
  <2>4. Quiet
    BY <1>1, <1>2, <2>1 DEF Quiet, MountsInv, TypeOK, RowsAreMounts
  <2> QED
    BY <1>1, <2>2, <2>3, <2>4, QuietStep
<1>3. CASE /\ p \in exists /\ stack' = [stack EXCEPT ![p] = Append(@, c)]
           /\ Step(c, "register") /\ UNCHANGED loading
  <2> DEFINE r == [call[c] EXCEPT !.pc = "register"]
  <2>1. Advances(c, r)
    BY <1>1, <1>3, StepMoves DEF Steps, Since, Asking
  <2>2. r.pc = "register" /\ r.at = p /\ r.op = "mount"
    BY <1>1, CallIs DEF CallType
  <2> HIDE DEF r
  <2>3. /\ call' \in [Calls -> CallType] /\ call'[c] = r
        /\ \A d \in Calls \ {c} : call'[d] = call[d]
        /\ Made \subseteq Made' /\ Made' \subseteq Calls
        /\ \A id \in Made : call'[id].at = call[id].at
    BY <2>1, MovesOne
  <2>4. c \in Made'
    BY <2>2, <2>3 DEF Made, Since
  <2> HIDE DEF p
  <2>5. /\ stack' \in [Places -> Seq(Calls)]
        /\ \A q \in Places \ {p} : stack'[q] = stack[q]
        /\ Len(stack'[p]) = Len(stack[p]) + 1 /\ stack'[p] # <<>>
        /\ \A n \in 1..Len(stack'[p]) :
              stack'[p][n] = IF n \in 1..Len(stack[p]) THEN stack[p][n] ELSE c
        /\ \A id \in Calls : Mounted(id)' <=> Mounted(id) \/ id = c
    BY <1>1, <1>3, Stacked
  <2>6. TypeOK' /\ CallsInOrder' /\ Alone'
    <3>1. /\ \A d \in Calls : Working(d)' => call'[d].at \in Places
          /\ CallsInOrder' /\ Alone'
      BY <2>1, MovesCalls
    <3>2. /\ tools' \subseteq Tools /\ available' \in BOOLEAN /\ exists' \subseteq Places
          /\ dead' \subseteq Calls /\ table' \subseteq Calls /\ activeMounts' \subseteq Calls
          /\ holder' \in Calls \union {0} /\ loading' \in BOOLEAN
          /\ outside' \subseteq Calls /\ crowded' \subseteq Places
      BY <1>1, <1>3 DEF MountsInv, TypeOK
    <3> QED
      BY <2>3, <2>5, <3>1, <3>2 DEF TypeOK
  <2>7. RowsAreMounts'
    BY <1>1, <2>3 DEF MountsInv, RowsAreMounts
  <2>8. StackIsMounts'
    <3>1. SUFFICES ASSUME NEW q \in Places, NEW n \in 1..Len(stack'[q])
                   PROVE  stack'[q][n] \in Made' /\ call'[stack'[q][n]].at = q
      BY DEF StackIsMounts, PlaceOf
    <3>2. CASE \E m \in 1..Len(stack[q]) : stack[q][m] = stack'[q][n]
      BY <2>3, <3>2 DEF MountsInv, StackIsMounts, PlaceOf
    <3>3. CASE q = p /\ stack'[q][n] = c
      BY <2>2, <2>3, <2>4, <3>3 DEF p
    <3>4. \/ q = p /\ stack'[q][n] = c
          \/ \E m \in 1..Len(stack[q]) : stack[q][m] = stack'[q][n]
      <4>1. CASE q = p
        BY <2>5, <4>1
      <4>2. CASE q # p
        BY <2>5, <4>2
      <4> QED
        BY <4>1, <4>2
    <3> QED
      BY <3>2, <3>3, <3>4
  <2>9. Clear'
    <3>1. \A q \in Places : stack'[q] # <<>> => q \in exists'
      BY <1>1, <1>3, <2>5 DEF MountsInv, Clear
    <3>2. ASSUME NEW q \in Places \ crowded, q # p
          PROVE  /\ Len(stack'[q]) <= 1
                 /\ \A d \in Calls : call'[d].at = q =>
                      /\ call'[d].pc = "prepare" => stack'[q] = <<>> \/ DeadAt(q)'
                      /\ call'[d].pc \in {"sshfs", "forget"} => stack'[q] = <<>>
      <4>1. stack'[q] = stack[q] /\ (DeadAt(q) => DeadAt(q)')
        BY <1>1, <2>5, <3>2 DEF DeadAt, Top
      <4>2. \A d \in Calls : call'[d].at = q => call'[d] = call[d]
        BY <2>2, <2>3, <3>2
      <4> QED
        BY <4>1, <4>2 DEF MountsInv, Clear, At
    <3>3. ASSUME p \notin crowded
          PROVE  /\ Len(stack'[p]) <= 1
                 /\ \A d \in Calls : call'[d].at = p =>
                      call'[d].pc \notin {"prepare", "sshfs", "forget"}
      <4>1. stack[p] = <<>>
        BY <1>1, <3>3 DEF MountsInv, Clear, p
      <4>2. Len(stack'[p]) <= 1
        BY <1>1, <2>5, <4>1, EmptyStack DEF MountsInv, TypeOK
      <4>3. ASSUME NEW d \in Calls, call'[d].at = p,
                   call'[d].pc \in {"prepare", "sshfs", "forget"}
            PROVE  FALSE
        <5>1. d # c /\ call'[d] = call[d]
          BY <2>2, <2>3, <4>3
        <5>2. Working(d) /\ call[d].at = call[c].at
          BY <4>3, <5>1 DEF Working, p
        <5> QED
          BY <1>1, <3>3, <5>1, <5>2 DEF MountsInv, Alone, p
      <4> QED
        BY <4>2, <4>3
    <3> QED
      BY <1>1, <3>1, <3>2, <3>3 DEF Clear, At
  <2>10. GoneIsGone'
    <3>1. SUFFICES ASSUME NEW d \in Calls, call'[d].pc = "looking", NEW id \in call'[d].gone
                   PROVE  ~Mounted(id)' \/ id \in dead \/ call'[id].at \in crowded
      BY <1>1 DEF GoneIsGone, At, PlaceOf
    <3>2. call[d].pc = "looking" /\ id \in call[d].gone
      BY <2>2, <2>3, <3>1
    <3>3. id \in Made
      BY <3>2, CallIs
    <3>4. ~Mounted(id) \/ id \in dead \/ call[id].at \in crowded
      BY <3>2 DEF MountsInv, GoneIsGone, At, PlaceOf
    <3>5. id \in Calls /\ (Mounted(id)' <=> Mounted(id))
      BY <1>1, <2>3, <2>5, <3>3
    <3> QED
      BY <2>3, <3>3, <3>4, <3>5
  <2>11. RegistersMount'
    <3>1. SUFFICES ASSUME NEW d \in Calls, call'[d].pc = "register"
                   PROVE  Mounted(d)' \/ d \in outside \/ call'[d].at \in crowded
      BY <1>1 DEF RegistersMount, At, PlaceOf
    <3>2. CASE d = c
      BY <2>5, <3>2
    <3>3. CASE d # c
      BY <2>3, <2>5, <3>1, <3>3 DEF MountsInv, RegistersMount, At, PlaceOf
    <3> QED
      BY <3>2, <3>3
  <2>12. TableIsWhatIsMounted'
    <3>1. NoneOutOfReach'
      <4>1. SUFFICES ASSUME NEW id \in Calls, Mounted(id)', id \notin dead,
                            call'[id].at \notin crowded, id \notin table
                     PROVE  call'[id].pc = "register"
        BY <1>1 DEF NoneOutOfReach, At, PlaceOf
      <4>2. CASE id = c
        BY <2>2, <2>3, <4>2
      <4>3. CASE id # c
        BY <2>3, <2>5, <4>1, <4>3
           DEF MountsInv, TableIsWhatIsMounted, NoneOutOfReach, At, PlaceOf
      <4> QED
        BY <4>2, <4>3
    <3>2. RowsOfOwnUnmountsGo'
      <4>1. SUFFICES ASSUME NEW id \in table, ~Mounted(id)', id \notin outside,
                            call'[id].at \notin crowded
                     PROVE  \E d \in Calls : call'[d].pc = "forget" /\ call'[d].at = call'[id].at
        BY <1>1 DEF RowsOfOwnUnmountsGo, At, PlaceOf
      <4>2. id \in Made /\ id \in Calls /\ call'[id].at = call[id].at /\ ~Mounted(id)
        BY <2>3, <2>5, <4>1 DEF MountsInv, RowsAreMounts
      <4>3. PICK d \in Calls : call[d].pc = "forget" /\ call[d].at = call[id].at
        BY <4>1, <4>2 DEF MountsInv, TableIsWhatIsMounted, RowsOfOwnUnmountsGo, At, PlaceOf
      <4>4. d # c
        BY <1>1, <4>3
      <4> QED
        BY <2>3, <4>2, <4>3, <4>4
    <3> QED
      BY <3>1, <3>2 DEF TableIsWhatIsMounted
  <2> QED
    BY <2>6, <2>7, <2>8, <2>9, <2>10, <2>11, <2>12 DEF MountsInv
<1> QED
  BY <1>2, <1>3 DEF RunSshfs

-----------------------------------------------------------------------------
(* Mounts are taken off *)

\* The visible mount of p goes, and no other.
LEMMA Popping ==
    ASSUME MountsInv, NEW p \in Places, stack[p] # <<>>,
           stack' = [stack EXCEPT ![p] = Popped(@)]
    PROVE  /\ stack' \in [Places -> Seq(Calls)]
           /\ \A q \in Places \ {p} : stack'[q] = stack[q]
           /\ \A q \in Places : \A n \in 1..Len(stack'[q]) :
                 n \in 1..Len(stack[q]) /\ stack'[q][n] = stack[q][n]
           /\ p \notin crowded => stack'[p] = <<>>
           /\ \A id \in Calls : Mounted(id)' => Mounted(id)
           /\ \A id \in Calls : Mounted(id) /\ id # Top(p) => Mounted(id)'
           /\ Top(p) \in Made /\ Top(p) \in Calls /\ PlaceOf(Top(p)) = p
<1>1. stack \in [Places -> Seq(Calls)] /\ TypeOK
  BY DEF MountsInv, TypeOK
<1>2. stack'[p] = Popped(stack[p]) /\ \A q \in Places \ {p} : stack'[q] = stack[q]
  BY <1>1
<1>3. /\ Popped(stack[p]) \in Seq(Calls) /\ Len(Popped(stack[p])) = Len(stack[p]) - 1
      /\ \A n \in 1..Len(stack[p]) - 1 : Popped(stack[p])[n] = stack[p][n]
      /\ Len(stack[p]) \in 1..Len(stack[p]) /\ stack[p][Len(stack[p])] \in Calls
      /\ Len(stack[p]) <= 1 => Popped(stack[p]) = <<>>
      /\ Len(stack[p]) \in Nat
  BY <1>1, PoppedIs, EmptyStack
<1>4. stack' \in [Places -> Seq(Calls)]
  BY <1>1, <1>2, <1>3
<1>5. \A q \in Places : \A n \in 1..Len(stack'[q]) :
         n \in 1..Len(stack[q]) /\ stack'[q][n] = stack[q][n]
  <2>1. ASSUME NEW n \in 1..Len(stack'[p])
        PROVE  n \in 1..Len(stack[p]) /\ stack'[p][n] = stack[p][n]
    BY <1>2, <1>3, <2>1
  <2> QED
    BY <1>2, <2>1
<1>6. p \notin crowded => stack'[p] = <<>>
  BY <1>2, <1>3 DEF MountsInv, Clear
<1>7. /\ \A id \in Calls :
           (Mounted(id) <=> \E q \in Places : \E n \in 1..Len(stack[q]) : stack[q][n] = id)
      /\ \A id \in Calls :
           (Mounted(id)' <=> \E q \in Places : \E n \in 1..Len(stack'[q]) : stack'[q][n] = id)
  BY <1>1, <1>4, SomewhereIs DEF Mounted
<1>8. \A id \in Calls : Mounted(id)' => Mounted(id)
  BY <1>5, <1>7
<1>9. ASSUME NEW id \in Calls, Mounted(id), id # Top(p) PROVE Mounted(id)'
  <2>1. PICK q \in Places : \E n \in 1..Len(stack[q]) : stack[q][n] = id
    BY <1>7, <1>9
  <2>2. PICK n \in 1..Len(stack[q]) : stack[q][n] = id
    BY <2>1
  <2>3. n \in 1..Len(stack'[q]) /\ stack'[q][n] = id
    <3>1. CASE q = p
      <4>1. n # Len(stack[p])
        BY <1>9, <2>2, <3>1 DEF Top
      <4>2. n \in 1..Len(stack[p]) - 1
        BY <1>3, <2>2, <3>1, <4>1
      <4> QED
        BY <1>2, <1>3, <2>2, <3>1, <4>2
    <3>2. CASE q # p
      BY <1>2, <2>2, <3>2
    <3> QED
      BY <3>1, <3>2
  <2> QED
    BY <1>7, <2>3
<1>10. Top(p) \in Made /\ Top(p) \in Calls /\ PlaceOf(Top(p)) = p
  BY <1>3 DEF Top, MountsInv, StackIsMounts
<1> QED
  BY <1>2, <1>4, <1>5, <1>6, <1>8, <1>9, <1>10

\* A program run for call c takes the visible mount of its place off.
LEMMA TakenOffStep ==
    ASSUME MountsInv, NEW c \in Calls, call[c].pc \in {"fusermount", "lazy"}, TakenOff(c),
           UNCHANGED <<available, tools, exists, dead, outside, table, holder, activeMounts>>
    PROVE  MountsInv'
<1> DEFINE p == call[c].at
           r == [call[c] EXCEPT !.pc = "forget"]
<1>1. /\ call[c].op # "mount" /\ p \in Places /\ Working(c) /\ c \notin Made
      /\ UNCHANGED <<loading, crowded>>
      /\ stack[p] # <<>> /\ stack' = [stack EXCEPT ![p] = Popped(@)] /\ Step(c, "forget")
  BY CallIs, StepOf DEF TakenOff, Working
<1>2. Advances(c, r)
  BY <1>1, StepMoves DEF Steps, Asking
<1>3. r.pc = "forget" /\ r.at = p
  BY <1>1, CallIs DEF CallType
<1> HIDE DEF r
<1>4. /\ call' \in [Calls -> CallType] /\ call'[c] = r
      /\ \A d \in Calls \ {c} : call'[d] = call[d]
      /\ Made \subseteq Made' /\ Made' \subseteq Calls
      /\ \A id \in Made : call'[id].at = call[id].at
  BY <1>2, MovesOne
<1> HIDE DEF p
<1>5. /\ stack' \in [Places -> Seq(Calls)]
      /\ \A q \in Places \ {p} : stack'[q] = stack[q]
      /\ \A q \in Places : \A n \in 1..Len(stack'[q]) :
            n \in 1..Len(stack[q]) /\ stack'[q][n] = stack[q][n]
      /\ p \notin crowded => stack'[p] = <<>>
      /\ \A id \in Calls : Mounted(id)' => Mounted(id)
      /\ \A id \in Calls : Mounted(id) /\ id # Top(p) => Mounted(id)'
      /\ Top(p) \in Made /\ Top(p) \in Calls /\ PlaceOf(Top(p)) = p
  BY <1>1, Popping
<1>6. TypeOK' /\ CallsInOrder' /\ Alone'
  <2>1. /\ \A d \in Calls : Working(d)' => call'[d].at \in Places
        /\ CallsInOrder' /\ Alone'
    BY <1>2, MovesCalls
  <2>2. /\ tools' \subseteq Tools /\ available' \in BOOLEAN /\ exists' \subseteq Places
        /\ dead' \subseteq Calls /\ table' \subseteq Calls /\ activeMounts' \subseteq Calls
        /\ holder' \in Calls \union {0} /\ loading' \in BOOLEAN
        /\ outside' \subseteq Calls /\ crowded' \subseteq Places
    BY <1>1 DEF MountsInv, TypeOK
  <2> QED
    BY <1>4, <1>5, <2>1, <2>2 DEF TypeOK
<1>7. RowsAreMounts'
  BY <1>4 DEF MountsInv, RowsAreMounts
<1>8. StackIsMounts'
  BY <1>4, <1>5 DEF MountsInv, StackIsMounts, PlaceOf
<1>9. Clear'
  <2>1. \A q \in Places : stack'[q] # <<>> => q \in exists'
    BY <1>1, <1>5 DEF MountsInv, Clear
  <2>2. ASSUME NEW q \in Places \ crowded, q # p
        PROVE  /\ Len(stack'[q]) <= 1
               /\ \A d \in Calls : call'[d].at = q =>
                    /\ call'[d].pc = "prepare" => stack'[q] = <<>> \/ DeadAt(q)'
                    /\ call'[d].pc \in {"sshfs", "forget"} => stack'[q] = <<>>
    <3>1. stack'[q] = stack[q] /\ (DeadAt(q) => DeadAt(q)')
      BY <1>1, <1>5, <2>2 DEF DeadAt, Top
    <3>2. \A d \in Calls : call'[d].at = q => call'[d] = call[d]
      BY <1>3, <1>4, <2>2
    <3> QED
      BY <3>1, <3>2 DEF MountsInv, Clear, At
  <2>3. p \notin crowded => stack'[p] = <<>> /\ Len(stack'[p]) <= 1
    BY <1>1, <1>5, EmptyStack
  <2> QED
    BY <1>1, <2>1, <2>2, <2>3 DEF Clear, At
<1>10. GoneIsGone'
  <2>1. SUFFICES ASSUME NEW d \in Calls, call'[d].pc = "looking", NEW id \in call'[d].gone
                 PROVE  ~Mounted(id)' \/ id \in dead \/ call'[id].at \in crowded
    BY <1>1 DEF GoneIsGone, At, PlaceOf
  <2>2. call[d].pc = "looking" /\ id \in call[d].gone
    BY <1>3, <1>4, <2>1
  <2>3. id \in Made
    BY <2>2, CallIs
  <2>4. ~Mounted(id) \/ id \in dead \/ call[id].at \in crowded
    BY <2>2 DEF MountsInv, GoneIsGone, At, PlaceOf
  <2> QED
    BY <1>4, <1>5, <2>3, <2>4
<1>11. RegistersMount'
  <2>1. SUFFICES ASSUME NEW d \in Calls, call'[d].pc = "register", d \notin outside,
                        call'[d].at \notin crowded
                 PROVE  Mounted(d)'
    BY <1>1 DEF RegistersMount, At, PlaceOf
  <2>2. d # c /\ call'[d] = call[d]
    BY <1>3, <1>4, <2>1
  <2>3. Mounted(d) /\ Working(d)
    BY <2>1, <2>2 DEF MountsInv, RegistersMount, Working, At, PlaceOf
  <2>4. call[d].at # p
    BY <1>1, <2>1, <2>2, <2>3 DEF MountsInv, Alone, p
  <2> QED
    BY <1>5, <2>3, <2>4 DEF PlaceOf
<1>12. TableIsWhatIsMounted'
  <2>1. NoneOutOfReach'
    <3>1. SUFFICES ASSUME NEW id \in Calls, Mounted(id)', id \notin dead,
                          call'[id].at \notin crowded, id \notin table
                   PROVE  call'[id].pc = "register"
      BY <1>1 DEF NoneOutOfReach, At, PlaceOf
    <3>2. Mounted(id) /\ id \in Made
      BY <1>1, <1>5, <3>1, MountedIs DEF MountsInv, StackIsMounts
    <3> QED
      BY <1>1, <1>4, <3>1, <3>2
         DEF MountsInv, TableIsWhatIsMounted, NoneOutOfReach, At, PlaceOf
  <2>2. RowsOfOwnUnmountsGo'
    <3>1. SUFFICES ASSUME NEW id \in table, ~Mounted(id)', id \notin outside,
                          call'[id].at \notin crowded
                   PROVE  \E d \in Calls : call'[d].pc = "forget" /\ call'[d].at = call'[id].at
      BY <1>1 DEF RowsOfOwnUnmountsGo, At, PlaceOf
    <3>2. id \in Made /\ id \in Calls /\ call'[id].at = call[id].at
      BY <1>4 DEF MountsInv, RowsAreMounts, Made
    <3>3. CASE call[id].at = p
      BY <1>3, <1>4, <3>2, <3>3
    <3>4. CASE call[id].at # p
      <4>1. ~Mounted(id)
        BY <1>5, <3>1, <3>2, <3>4 DEF PlaceOf
      <4>2. PICK d \in Calls : call[d].pc = "forget" /\ call[d].at = call[id].at
        BY <3>1, <3>2, <4>1 DEF MountsInv, TableIsWhatIsMounted, RowsOfOwnUnmountsGo, At, PlaceOf
      <4>3. d # c
        BY <4>2
      <4> QED
        BY <1>4, <3>2, <4>2, <4>3
    <3> QED
      BY <3>3, <3>4
  <2> QED
    BY <2>1, <2>2 DEF TableIsWhatIsMounted
<1> QED
  BY <1>6, <1>7, <1>8, <1>9, <1>10, <1>11, <1>12 DEF MountsInv

LEMMA FusermountStep == ASSUME MountsInv, NEW c \in Calls, Fusermount(c) PROVE MountsInv'
<1>1. /\ call[c].pc = "fusermount"
      /\ UNCHANGED <<available, tools, exists, dead, outside, table, holder, activeMounts>>
  BY DEF Fusermount, At
<1>2. CASE TakenOff(c)
  BY <1>1, <1>2, TakenOffStep
<1>3. CASE Step(c, "lazy") /\ UNCHANGED <<stack, loading, crowded>>
  BY <1>1, <1>3, UnmountsOn DEF system
<1>4. CASE Over(c, FALSE) /\ UNCHANGED stack
  BY <1>1, <1>4, UnmountsOn DEF system
<1> QED
  BY <1>2, <1>3, <1>4 DEF Fusermount

LEMMA FusermountLazyStep == ASSUME MountsInv, NEW c \in Calls, FusermountLazy(c) PROVE MountsInv'
<1>1. /\ call[c].pc = "lazy"
      /\ UNCHANGED <<available, tools, exists, dead, outside, table, holder, activeMounts>>
  BY DEF FusermountLazy, At
<1>2. CASE TakenOff(c)
  BY <1>1, <1>2, TakenOffStep
<1>3. CASE Over(c, FALSE) /\ UNCHANGED stack
  BY <1>1, <1>3, UnmountsOn DEF system
<1> QED
  BY <1>2, <1>3 DEF FusermountLazy

-----------------------------------------------------------------------------
(* What the system does by itself *)

LEMMA PackageRemovedStep ==
    ASSUME MountsInv, NEW programs, PackageRemoved(programs) PROVE MountsInv'
<1>1. UNCHANGED <<exists, stack, dead, outside, table, holder, call, activeMounts, loading,
                  available, crowded>>
      /\ tools' \subseteq tools
  BY DEF PackageRemoved, program
<1>2. /\ Made' = Made /\ \A id : (Mounted(id)' <=> Mounted(id))
      /\ \A q : (DeadAt(q)' <=> DeadAt(q)) /\ \A d : (Working(d)' <=> Working(d))
  BY <1>1 DEF Made, Mounted, DeadAt, Top, Working
<1>3. TypeOK'
  BY <1>1, <1>2 DEF MountsInv, TypeOK
<1>4. CallsInOrder' /\ RowsAreMounts' /\ StackIsMounts' /\ Alone' /\ Clear'
  BY <1>1, <1>2 DEF MountsInv, CallsInOrder, RowsAreMounts, StackIsMounts, Alone, Clear, At, PlaceOf
<1>5. GoneIsGone' /\ RegistersMount' /\ TableIsWhatIsMounted'
  BY <1>1, <1>2 DEF MountsInv, GoneIsGone, RegistersMount, TableIsWhatIsMounted, NoneOutOfReach,
                    RowsOfOwnUnmountsGo, At, PlaceOf
<1> QED
  BY <1>3, <1>4, <1>5 DEF MountsInv

LEMMA SshfsDiesStep == ASSUME MountsInv, NEW i \in Calls, SshfsDies(i) PROVE MountsInv'
<1>1. /\ UNCHANGED <<exists, stack, tools, outside, table, holder, call, activeMounts, loading,
                     available, crowded>>
      /\ dead' = dead \union {i}
  BY DEF SshfsDies, program
<1>2. /\ Made' = Made /\ \A id : (Mounted(id)' <=> Mounted(id))
      /\ \A q : (DeadAt(q) => DeadAt(q)') /\ \A d : (Working(d)' <=> Working(d))
  BY <1>1 DEF Made, Mounted, DeadAt, Top, Working
<1>3. TypeOK'
  BY <1>1, <1>2 DEF MountsInv, TypeOK
<1>4. CallsInOrder' /\ RowsAreMounts' /\ StackIsMounts' /\ Alone' /\ Clear'
  BY <1>1, <1>2 DEF MountsInv, CallsInOrder, RowsAreMounts, StackIsMounts, Alone, Clear, At, PlaceOf
<1>5. GoneIsGone' /\ RegistersMount' /\ TableIsWhatIsMounted'
  BY <1>1, <1>2 DEF MountsInv, GoneIsGone, RegistersMount, TableIsWhatIsMounted, NoneOutOfReach,
                    RowsOfOwnUnmountsGo, At, PlaceOf
<1> QED
  BY <1>3, <1>4, <1>5 DEF MountsInv

LEMMA UnmountedOutsideStep ==
    ASSUME MountsInv, NEW p \in Places, UnmountedOutside(p) PROVE MountsInv'
<1>1. /\ UNCHANGED <<exists, dead, tools, table, holder, call, activeMounts, loading, available, crowded>>
      /\ stack[p] # <<>> /\ stack' = [stack EXCEPT ![p] = Popped(@)]
      /\ outside' = outside \union {Top(p)}
  BY DEF UnmountedOutside, program
<1>2. /\ stack' \in [Places -> Seq(Calls)]
      /\ \A q \in Places \ {p} : stack'[q] = stack[q]
      /\ \A q \in Places : \A n \in 1..Len(stack'[q]) :
            n \in 1..Len(stack[q]) /\ stack'[q][n] = stack[q][n]
      /\ p \notin crowded => stack'[p] = <<>>
      /\ \A id \in Calls : Mounted(id)' => Mounted(id)
      /\ \A id \in Calls : Mounted(id) => Mounted(id)' \/ id \in outside'
      /\ Top(p) \in Calls /\ Made' = Made
      /\ \A d : (Working(d)' <=> Working(d))
  BY <1>1, Popping DEF Made, Working
<1>3. TypeOK'
  BY <1>1, <1>2 DEF MountsInv, TypeOK
<1>4. CallsInOrder' /\ RowsAreMounts' /\ Alone'
  BY <1>1, <1>2 DEF MountsInv, CallsInOrder, RowsAreMounts, Alone
<1>5. StackIsMounts'
  BY <1>1, <1>2 DEF MountsInv, StackIsMounts, PlaceOf
<1>6. Clear'
  <2>1. \A q \in Places : stack'[q] # <<>> => q \in exists'
    BY <1>1, <1>2 DEF MountsInv, Clear
  <2>2. ASSUME NEW q \in Places \ crowded, q # p
        PROVE  stack'[q] = stack[q] /\ (DeadAt(q) => DeadAt(q)')
    BY <1>1, <1>2, <2>2 DEF DeadAt, Top
  <2>3. p \notin crowded => stack'[p] = <<>> /\ Len(stack'[p]) <= 1
    BY <1>2, EmptyStack
  <2> QED
    BY <1>1, <2>1, <2>2, <2>3 DEF MountsInv, Clear, At
<1>7. GoneIsGone'
  <2>1. \A d \in Calls : \A id \in call[d].gone : id \in Calls
    BY CallIs DEF Made
  <2> QED
    BY <1>1, <1>2, <2>1 DEF MountsInv, GoneIsGone, At, PlaceOf
<1>8. RegistersMount' /\ NoneOutOfReach'
  BY <1>1, <1>2 DEF MountsInv, RegistersMount, TableIsWhatIsMounted, NoneOutOfReach, At, PlaceOf
<1>9. RowsOfOwnUnmountsGo'
  <2>1. table \subseteq Calls
    BY DEF MountsInv, TypeOK
  <2> QED
    BY <1>1, <1>2, <2>1 DEF MountsInv, TableIsWhatIsMounted, RowsOfOwnUnmountsGo, At, PlaceOf
<1> QED
  BY <1>3, <1>4, <1>5, <1>6, <1>7, <1>8, <1>9 DEF MountsInv, TableIsWhatIsMounted

LEMMA DirectoryRemovedStep ==
    ASSUME MountsInv, NEW p \in Places, DirectoryRemoved(p) PROVE MountsInv'
<1>1. /\ UNCHANGED <<tools, stack, dead, outside, table, holder, call, activeMounts, loading,
                     available, crowded>>
      /\ stack[p] = <<>> /\ exists' = exists \ {p}
  BY DEF DirectoryRemoved, program
<1>2. /\ Made' = Made /\ \A id : (Mounted(id)' <=> Mounted(id))
      /\ \A q : (DeadAt(q)' <=> DeadAt(q)) /\ \A d : (Working(d)' <=> Working(d))
  BY <1>1 DEF Made, Mounted, DeadAt, Top, Working
<1>3. TypeOK'
  BY <1>1, <1>2 DEF MountsInv, TypeOK
<1>4. CallsInOrder' /\ RowsAreMounts' /\ StackIsMounts' /\ Alone'
  BY <1>1, <1>2 DEF MountsInv, CallsInOrder, RowsAreMounts, StackIsMounts, Alone, PlaceOf
<1>5. Clear'
  BY <1>1, <1>2 DEF MountsInv, Clear, At
<1>6. GoneIsGone' /\ RegistersMount' /\ TableIsWhatIsMounted'
  BY <1>1, <1>2 DEF MountsInv, GoneIsGone, RegistersMount, TableIsWhatIsMounted, NoneOutOfReach,
                    RowsOfOwnUnmountsGo, At, PlaceOf
<1> QED
  BY <1>3, <1>4, <1>5, <1>6 DEF MountsInv

-----------------------------------------------------------------------------
(* The theorem *)

LEMMA MountsInitially == Init => MountsInv
<1> SUFFICES ASSUME Init PROVE MountsInv
  OBVIOUS
<1>1. /\ Idle \in CallType /\ [Idle EXCEPT !.op = "init", !.pc = "status"] \in CallType
      /\ Idle.pc = "idle" /\ Idle.op = "none" /\ Idle.left = {} /\ Idle.gone = {}
  BY DEF Idle, CallType, Ops, Steps
<1>2. \A c \in Calls :
        /\ call[c] \in CallType /\ call[c].op # "mount" /\ call[c].pc \in {"idle", "status"}
        /\ call[c].left = {} /\ call[c].gone = {}
  BY <1>1 DEF Init, CallType
<1>3. call \in [Calls -> CallType]
  BY <1>1 DEF Init
<1>4. stack \in [Places -> Seq(Calls)] /\ \A p \in Places : stack[p] = <<>> /\ Len(stack[p]) = 0
  BY EmptySeq DEF Init
<1>5. TypeOK
  <2>1. \A c \in Calls : ~Working(c)
    BY <1>2 DEF Working
  <2>2. tools \subseteq Tools /\ available \in BOOLEAN
    BY MountsAssumption DEF Init
  <2> QED
    BY <1>3, <1>4, <2>1, <2>2 DEF Init, TypeOK
<1>6. CallsInOrder /\ RowsAreMounts /\ Alone /\ GoneIsGone /\ RegistersMount
  BY <1>2 DEF Init, CallsInOrder, RowsAreMounts, Alone, GoneIsGone, RegistersMount, Working, At
<1>7. StackIsMounts /\ Clear
  BY <1>2, <1>4 DEF StackIsMounts, Clear, At
<1>8. TableIsWhatIsMounted
  <2>1. \A c \in Calls : ~Mounted(c)
    BY <1>4, <1>5, MountedIs
  <2> QED
    BY <2>1 DEF Init, TableIsWhatIsMounted, NoneOutOfReach, RowsOfOwnUnmountsGo
<1> QED
  BY <1>5, <1>6, <1>7, <1>8 DEF MountsInv

LEMMA MountsInductive == MountsInv /\ [Next]_vars => MountsInv'
<1> SUFFICES ASSUME MountsInv, [Next]_vars PROVE MountsInv'
  OBVIOUS
<1>1. CASE UNCHANGED vars
  <2>1. /\ Made' = Made /\ \A id : (Mounted(id)' <=> Mounted(id))
        /\ \A q : (DeadAt(q)' <=> DeadAt(q)) /\ \A d : (Working(d)' <=> Working(d))
    BY <1>1 DEF vars, Made, Mounted, DeadAt, Top, Working
  <2>2. TypeOK'
    BY <1>1, <2>1 DEF vars, MountsInv, TypeOK
  <2>3. CallsInOrder' /\ RowsAreMounts' /\ StackIsMounts' /\ Alone' /\ Clear'
    BY <1>1, <2>1 DEF vars, MountsInv, CallsInOrder, RowsAreMounts, StackIsMounts, Alone, Clear, At,
                      PlaceOf
  <2>4. GoneIsGone' /\ RegistersMount' /\ TableIsWhatIsMounted'
    BY <1>1, <2>1 DEF vars, MountsInv, GoneIsGone, RegistersMount, TableIsWhatIsMounted,
                      NoneOutOfReach, RowsOfOwnUnmountsGo, At, PlaceOf
  <2> QED
    BY <2>2, <2>3, <2>4 DEF MountsInv
<1>2. CASE System
  BY <1>2, PackageRemovedStep, SshfsDiesStep, UnmountedOutsideStep, DirectoryRemovedStep
     DEF System
<1>3. ASSUME NEW c \in Calls, User(c) \/ Progress(c) PROVE MountsInv'
  <2>1. CASE User(c)
    BY <2>1, UserStep
  <2>2. CASE CheckStatus(c) \/ PassGate(c) \/ Abandon(c)
    BY <2>2, CheckStatusStep, PassGateStep, AbandonStep
  <2>3. CASE Mounting(c)
    BY <2>3, LookBeforeMountStep, PrepareStep, RunSshfsStep, RegisterStep DEF Mounting
  <2>4. CASE Unmounting(c)
    BY <2>4, FindStep, SnapshotStep, LookBeforeUnmountStep, FusermountStep, FusermountLazyStep,
       ForgetStep DEF Unmounting
  <2>5. CASE Refreshing(c)
    BY <2>5, RefreshStep, LookAtMountStep, RetainStep, ShowStep DEF Refreshing
  <2> QED
    BY <1>3, <2>1, <2>2, <2>3, <2>4, <2>5 DEF Progress
<1> QED
  BY <1>1, <1>2, <1>3 DEF Next

LEMMA MountsInvariant == Spec => []MountsInv
BY MountsInitially, MountsInductive, PTL DEF Spec

\* Every variable keeps its type, and a call at work is at a place
\* (sshfs_mount/mount.rs, sshfs_mount_provider.dart).
THEOREM MountsTypeCorrect == Spec => []TypeOK
<1>1. MountsInv => TypeOK
  BY DEF MountsInv
<1> QED
  BY <1>1, MountsInvariant, PTL

\* What the application mounted and what ACTIVE_MOUNTS holds agree, both ways,
\* wherever one call at a time works on a place, and but for the rows of mounts
\* that somebody else undid: whatever the tools do, and in whatever order calls
\* on different places and refreshes interleave.
THEOREM RowsAgree == Spec => []TableIsWhatIsMounted
<1>1. MountsInv => TableIsWhatIsMounted
  BY DEF MountsInv
<1> QED
  BY <1>1, MountsInvariant, PTL

----------------------------------------------------------------------------
(* The workspace                                                           *)

(* The types the proofs need; the bounds of WorkspaceTypeOK do not matter.  *)
Loading   == [by : Nat, project : Projects, as : Someone]
Switch    == [by : Nat, at : {"tunnels", "switch", "accounts", "restore", "list"},
              to : Accounts, previous : Someone, found : SUBSET Projects]
Written   == [set : SUBSET Projects, by : Nat, added : SUBSET Projects]

WorkspaceTypes ==
    /\ active \in Accounts /\ known \in Someone
    /\ rebuilds \in Nat /\ presses \in Nat
    /\ starting \in [at : {"no", "accounts", "show", "auth"}, found : SUBSET Projects]
    /\ switches \subseteq Switch
    /\ selected \subseteq Projects /\ rows \in [Projects -> Someone]
    /\ loads \subseteq Loading
    /\ menu \in Someone
    /\ saved \in [Accounts -> SUBSET Projects] /\ migrated \in BOOLEAN
    /\ global \subseteq Projects
    /\ writes \in Seq(Written)
    /\ meant \in [Accounts -> SUBSET Projects] /\ spoilt \subseteq Accounts
    /\ crossed \subseteq Projects

(* The notifiers' steps, for the proofs by cases.                          *)
LEMMA StoredKept ==
    ASSUME WorkspaceTypes, NEW a \in Accounts, NEW set \in SUBSET Projects,
           saveAccountProjects(a, set) \/ migrateProjectsToAccount(a)
              \/ UNCHANGED <<saved, migrated>>
    PROVE  saved' \in [Accounts -> SUBSET Projects] /\ migrated' \in BOOLEAN
BY DEF WorkspaceTypes, saveAccountProjects, migrateProjectsToAccount

LEMMA LoadsKept ==
    ASSUME WorkspaceTypes, NEW by \in Nat, NEW set \in SUBSET Projects, Loads(by, set)
    PROVE  loads' \subseteq Loading /\ rows' \in [Projects -> Someone]
BY DEF WorkspaceTypes, Loads, Fetches, Loading, Someone

LEMMA AccountsRead ==
    ASSUME WorkspaceTypes, _loadAccounts
    PROVE  /\ known' \in Someone /\ menu' \in Someone
           /\ saved' \in [Accounts -> SUBSET Projects] /\ migrated' \in BOOLEAN
<1>1. saved' \in [Accounts -> SUBSET Projects] /\ migrated' \in BOOLEAN
  BY StoredKept DEF _loadAccounts, WorkspaceTypes
<1> QED
  BY <1>1 DEF _loadAccounts, WorkspaceTypes, Someone, MenuFollows, menuVars

LEMMA SwitchKept ==
    ASSUME WorkspaceTypes, NEW s \in switches,
           NEW at \in {"tunnels", "switch", "accounts", "restore", "list"}, Moves(s, at)
    PROVE  switches' \subseteq Switch
BY DEF WorkspaceTypes, Moves, Switch

LEMMA TypesAtStart == WorkspaceInit => WorkspaceTypes
<1> SUFFICES ASSUME WorkspaceInit PROVE WorkspaceTypes
  OBVIOUS
<1>1. Selections \subseteq SUBSET Projects
  BY DEF Selections
<1>2. /\ saved \in [Accounts -> SUBSET Projects] /\ global \subseteq Projects
      /\ meant \in [Accounts -> SUBSET Projects]
  <2>1. saved \in [Accounts -> SUBSET Projects] /\ global \subseteq Projects
    BY <1>1 DEF WorkspaceInit
  <2> QED
    BY <2>1 DEF WorkspaceInit
<1> QED
  BY <1>2, EmptySeq DEF WorkspaceInit, WorkspaceTypes, Someone, Loading, Switch

LEMMA TypesKept == WorkspaceTypes /\ [WorkspaceNext]_workspaceVars => WorkspaceTypes'
<1> SUFFICES ASSUME WorkspaceTypes, [WorkspaceNext]_workspaceVars PROVE WorkspaceTypes'
  OBVIOUS
<1> USE DEF accountVars, menuVars, shownVars, storedVars, taskVars, loadVars, historyVars
<1>1. CASE UNCHANGED workspaceVars
  BY <1>1 DEF workspaceVars, WorkspaceTypes
<1>2. CASE Press /\ WorkspaceStays
  BY <1>2 DEF Press, WorkspaceStays, WorkspaceTypes
<1>3. CASE Answers
  <2>1. ASSUME NEW l \in loads, ListTakesToken(l) PROVE WorkspaceTypes'
    <3>1. loads' \subseteq Loading
      BY <2>1 DEF ListTakesToken, WorkspaceTypes, Loading, Someone
    <3> QED
      BY <2>1, <3>1 DEF ListTakesToken, WorkspaceTypes
  <2>2. ASSUME NEW l \in loads, list_instances(l) \/ ListFails(l) PROVE WorkspaceTypes'
    <3>1. loads' \subseteq Loading
      BY <2>2 DEF list_instances, ListFails, WorkspaceTypes
    <3>2. rows' \in [Projects -> Someone]
      BY <2>2 DEF list_instances, ListFails, WorkspaceTypes, Loading, Someone
    <3> QED
      BY <2>2, <3>1, <3>2 DEF list_instances, ListFails, WorkspaceTypes
  <2>3. CASE list_projects
    BY <2>3 DEF list_projects, WorkspaceTypes, Someone
  <2>4. CASE Refreshed
    BY <2>4 DEF Refreshed, WorkspaceTypes
  <2> QED
    BY <1>3, <2>1, <2>2, <2>3, <2>4 DEF Answers
<1>4. CASE Accounting
  <2>1. CASE Rebuild
    BY <2>1 DEF Rebuild, WorkspaceTypes, Someone, MenuFollows
  <2>2. CASE ListAccounts
    <3>1. _loadAccounts
      BY <2>2 DEF ListAccounts
    <3> QED
      BY <2>2, <3>1, AccountsRead DEF ListAccounts, WorkspaceTypes
  <2> QED
    BY <1>4, <2>1, <2>2 DEF Accounting
<1>5. CASE Starting
  <2>1. CASE _loadSelectedProjects
    <3>1. saved' \in [Accounts -> SUBSET Projects] /\ migrated' \in BOOLEAN
      BY <2>1, StoredKept DEF _loadSelectedProjects, WorkspaceTypes
    <3>2. global' \subseteq Projects
      BY <2>1, <3>1 DEF _loadSelectedProjects, WorkspaceTypes
    <3> QED
      BY <2>1, <3>1, <3>2 DEF _loadSelectedProjects, WorkspaceTypes
  <2>2. CASE ShowSelected
    BY <2>2 DEF ShowSelected, WorkspaceTypes
  <2>3. CASE CheckAuth
    <3>1. loads' \subseteq Loading /\ rows' \in [Projects -> Someone] /\ selected' = selected
      BY <2>3, LoadsKept DEF CheckAuth, WorkspaceTypes
    <3> QED
      BY <2>3, <3>1 DEF CheckAuth, WorkspaceTypes
  <2> QED
    BY <1>5, <2>1, <2>2, <2>3 DEF Starting
<1>6. CASE Switching
  <2>1. PICK s \in switches : \/ saveProjectsForAccount(s) \/ switchGcloudAccount(s)
                              \/ SwitchListsAccounts(s) \/ switchToAccount(s) \/ SwitchLoads(s)
    BY <1>6 DEF Switching
  <2>0. s \in Switch
    BY DEF WorkspaceTypes
  <2>2. CASE saveProjectsForAccount(s)
    <3>1. switches' \subseteq Switch
      BY <2>2, SwitchKept DEF saveProjectsForAccount
    <3>2. saved' \in [Accounts -> SUBSET Projects] /\ migrated' \in BOOLEAN
      <4>1. CASE selected = {}
        BY <2>2, <4>1 DEF saveProjectsForAccount, WorkspaceTypes
      <4>2. CASE selected # {}
        <5>1. saveAccountProjects(s.previous, selected)
          BY <2>2, <4>2 DEF saveProjectsForAccount
        <5> QED
          BY <5>1 DEF saveAccountProjects, WorkspaceTypes
      <4> QED
        BY <4>1, <4>2
    <3> QED
      BY <2>2, <3>1, <3>2 DEF saveProjectsForAccount, WorkspaceTypes
  <2>3. CASE switchGcloudAccount(s)
    <3>1. switches' \subseteq Switch
      BY <2>3, SwitchKept DEF switchGcloudAccount, WorkspaceTypes
    <3>2. active' \in Accounts
      BY <2>0, <2>3 DEF switchGcloudAccount, WorkspaceTypes, Switch
    <3> QED
      BY <2>3, <3>1, <3>2 DEF switchGcloudAccount, WorkspaceTypes
  <2>4. CASE SwitchListsAccounts(s)
    <3>1. switches' \subseteq Switch /\ _loadAccounts
      BY <2>4, SwitchKept DEF SwitchListsAccounts
    <3> QED
      BY <2>4, <3>1, AccountsRead DEF SwitchListsAccounts, WorkspaceTypes
  <2>5. CASE switchToAccount(s)
    <3>1. saved[s.to] \in SUBSET Projects
      BY <2>0 DEF WorkspaceTypes, Switch
    <3>2. switches' \subseteq Switch
      BY <2>0, <2>5, <3>1 DEF switchToAccount, WorkspaceTypes, Switch
    <3>3. crossed' \subseteq Projects
      BY <2>5 DEF switchToAccount, WorkspaceTypes, Loading
    <3>4. rows' \in [Projects -> Someone]
      BY <2>5 DEF switchToAccount, Someone
    <3>5. UNCHANGED <<active, known, saved, migrated, loads, meant, spoilt, menu, starting, writes,
                      presses>>
          /\ rebuilds' = rebuilds + 2 /\ selected' = saved[s.to] /\ global' = saved[s.to]
      BY <2>5 DEF switchToAccount
    <3> QED
      BY <3>1, <3>2, <3>3, <3>4, <3>5 DEF WorkspaceTypes
  <2>6. CASE SwitchLoads(s)
    <3>1. loads' \subseteq Loading /\ rows' \in [Projects -> Someone] /\ switches' \subseteq Switch
      <4>1. s.by \in Nat /\ s.found \in SUBSET Projects
        BY <2>0 DEF Switch
      <4> QED
        BY <2>6, <4>1, LoadsKept DEF SwitchLoads, WorkspaceTypes
    <3> QED
      BY <2>6, <3>1 DEF SwitchLoads, WorkspaceTypes
  <2> QED
    BY <2>1, <2>2, <2>3, <2>4, <2>5, <2>6
<1>7. CASE _syncProjectsToActiveAccount
  <2>1. Head(writes) \in Written /\ writes' \in Seq(Written)
    BY <1>7, HeadTailProperties DEF _syncProjectsToActiveAccount, WorkspaceTypes
  <2>2. Head(writes).set \in SUBSET Projects /\ Head(writes).by \in Nat
        /\ Head(writes).added \in SUBSET Projects
    BY <2>1 DEF Written
  <2>3. saved' \in [Accounts -> SUBSET Projects] /\ migrated' \in BOOLEAN
    <3>1. CASE known = NoAccount
      BY <1>7, <3>1 DEF _syncProjectsToActiveAccount, WorkspaceTypes
    <3>2. CASE known # NoAccount
      BY <1>7, <2>2, <3>2 DEF _syncProjectsToActiveAccount, WorkspaceTypes, saveAccountProjects
    <3> QED
      BY <3>1, <3>2
  <2>4. loads' \subseteq Loading /\ rows' \in [Projects -> Someone]
    BY <1>7, <2>2, LoadsKept DEF _syncProjectsToActiveAccount
  <2> QED
    BY <1>7, <2>1, <2>3, <2>4 DEF _syncProjectsToActiveAccount, WorkspaceTypes
<1>8. CASE WorkspacePresses
  <2>0. /\ presses \in Nat /\ \A set : Chose(set) =>
             \/ UNCHANGED <<spoilt, crossed>> /\ meant' = [meant EXCEPT ![known] = set]
             \/ spoilt' = Accounts /\ UNCHANGED <<meant, crossed>>
    BY DEF WorkspaceTypes, Chose
  <2>1. ASSUME NEW set \in SUBSET Projects, NEW added \in SUBSET Projects, Press,
               Stores(set, added), rows' \in [Projects -> Someone]
        PROVE  WorkspaceTypes'
    <3>1. presses' \in Nat
      BY <2>0, <2>1 DEF Press
    <3>2. [set |-> set, by |-> presses', added |-> added] \in Written
      BY <2>1, <3>1 DEF Written
    <3>3. writes' \in Seq(Written)
      BY <2>1, <3>2, AppendProperties DEF Stores, WorkspaceTypes
    <3>4. meant' \in [Accounts -> SUBSET Projects] /\ spoilt' \subseteq Accounts
          /\ crossed' = crossed
      <4>1. DOMAIN meant = Accounts
        BY DEF WorkspaceTypes
      <4> QED
        BY <2>1, <4>1 DEF Stores, Chose, WorkspaceTypes
    <3> QED
      BY <2>1, <3>1, <3>3, <3>4 DEF Stores, WorkspaceTypes
  <2>2. ASSUME NEW p \in Projects, addProject(p) PROVE WorkspaceTypes'
    <3>1. selected \cup {p} \in SUBSET Projects
      BY DEF WorkspaceTypes
    <3> QED
      BY <2>1, <2>2, <3>1 DEF addProject, WorkspaceTypes
  <2>3. ASSUME NEW p \in Projects, removeProject(p) PROVE WorkspaceTypes'
    <3>1. selected \ {p} \in SUBSET Projects /\ rows' \in [Projects -> Someone]
      BY <2>3 DEF WorkspaceTypes, removeProject, Someone
    <3> QED
      BY <2>1, <2>3, <3>1 DEF removeProject
  <2>4. CASE clearAll
    BY <2>4 DEF clearAll, WorkspaceTypes, Press, Someone
  <2>5. CASE refreshAllProjects
    <3>1. presses' \in Nat
      BY <2>0, <2>5 DEF Press, refreshAllProjects
    <3>2. loads' \subseteq Loading /\ rows' \in [Projects -> Someone]
      BY <2>5, <3>1, LoadsKept DEF refreshAllProjects, WorkspaceTypes
    <3> QED
      BY <2>5, <3>1, <3>2 DEF refreshAllProjects, WorkspaceTypes
  <2>6. CASE Restart
    <3>1. writes' \in Seq(Written)
      BY <2>6, EmptySeq DEF Restart, Started
    <3>2. rows' \in [Projects -> Someone]
      BY <2>6 DEF Restart, Started, Someone
    <3> QED
      BY <2>6, <3>1, <3>2 DEF Restart, Started, WorkspaceTypes, Press, Someone, Loading, Switch
  <2>7. ASSUME NEW a \in Accounts, switchAccount(a) PROVE WorkspaceTypes'
    <3>1. switches' \subseteq Switch
      BY <2>7 DEF switchAccount, Press, WorkspaceTypes, Switch
    <3> QED
      BY <2>7, <3>1 DEF switchAccount, Press, WorkspaceTypes
  <2> QED
    BY <1>8, <2>2, <2>3, <2>4, <2>5, <2>6, <2>7 DEF WorkspacePresses
<1> QED
  BY <1>1, <1>2, <1>3, <1>4, <1>5, <1>6, <1>7, <1>8 DEF WorkspaceNext, WorkspaceSteps

(* A switch is between the account's change and its workspace's.           *)
Crossing(s)   == s.at \in {"accounts", "restore"}
NobodyCrosses == \A s \in switches : ~Crossing(s)

(* The project list is the active account's, or is about to be read anew.  *)
MenuInv ==
    /\ known = NoAccount => menu = NoAccount /\ ~asking
    /\ menu \in {NoAccount, active} \/ rebuilds > 0 \/ ~NobodyCrosses

(* So are the rows and the listings; but for those that crossed.           *)
RowsInv ==
    NobodyCrosses =>
        /\ \A p \in Projects \ crossed : rows[p] \in {NoAccount, active}
        /\ \A l \in loads : l.as \in {NoAccount, active} \/ l.project \in crossed

(* What a listing in the making leaves of it.                              *)
LEMMA LoadsOwn ==
    ASSUME WorkspaceTypes, RowsInv, NobodyCrosses, NEW by, NEW set \in SUBSET Projects,
           Loads(by, set)
    PROVE  /\ \A p \in Projects \ crossed : rows'[p] \in {NoAccount, active}
           /\ \A l \in loads' : l.as \in {NoAccount, active} \/ l.project \in crossed
BY DEF WorkspaceTypes, RowsInv, Loads, Fetches

(* A step that changes neither, or only forgets.                           *)
LEMMA RowsStay ==
    ASSUME RowsInv, NobodyCrosses' => NobodyCrosses, UNCHANGED <<active, crossed>>,
           loads' \subseteq loads,
           \A p \in Projects : rows'[p] \in {rows[p], NoAccount}
    PROVE  RowsInv'
BY DEF RowsInv

LEMMA RowsLoad ==
    ASSUME WorkspaceTypes, RowsInv, NobodyCrosses' => NobodyCrosses,
           UNCHANGED <<active, crossed>>, NEW by, NEW set \in SUBSET Projects, Loads(by, set)
    PROVE  RowsInv'
BY LoadsOwn DEF RowsInv

(* The account list read anew takes the project list with it.              *)
LEMMA MenuReads ==
    ASSUME MenuInv, MenuFollows, active' = active, rebuilds > 0 => rebuilds' > 0,
           NobodyCrosses' => NobodyCrosses
    PROVE  MenuInv'
<1>1. CASE known' = known /\ UNCHANGED menuVars
  BY <1>1 DEF MenuInv, menuVars
<1>2. CASE known' # known /\ menu' = NoAccount /\ asking' = (known' # NoAccount)
  <2>1. known' = NoAccount => ~asking'
    BY <1>2
  <2> QED
    BY <1>2, <2>1 DEF MenuInv
<1> QED
  BY <1>1, <1>2 DEF MenuFollows

LEMMA MenuStaysOwn ==
    ASSUME MenuInv, UNCHANGED <<known, menu, asking, active, rebuilds>>,
           NobodyCrosses' => NobodyCrosses
    PROVE  MenuInv'
BY DEF MenuInv

LEMMA OwnAtStart == WorkspaceInit => MenuInv /\ RowsInv
BY DEF WorkspaceInit, MenuInv, RowsInv, NobodyCrosses

LEMMA OwnKept ==
    WorkspaceTypes /\ MenuInv /\ RowsInv /\ [WorkspaceNext]_workspaceVars => MenuInv' /\ RowsInv'
<1> SUFFICES ASSUME WorkspaceTypes, MenuInv, RowsInv, [WorkspaceNext]_workspaceVars
             PROVE  MenuInv' /\ RowsInv'
  OBVIOUS
<1> USE DEF accountVars, menuVars, shownVars, storedVars, taskVars, loadVars, historyVars
<1>0. switches' = switches => (NobodyCrosses' <=> NobodyCrosses)
  BY DEF NobodyCrosses, Crossing
<1>1. CASE UNCHANGED workspaceVars \/ (Press /\ WorkspaceStays)
  <2>1. UNCHANGED <<active, known, menu, asking, rebuilds, switches, loads, rows, crossed>>
    BY <1>1 DEF workspaceVars, WorkspaceStays
  <2> QED
    BY <1>0, <2>1, MenuStaysOwn, RowsStay
<1>3. CASE Answers
  <2>1. ASSUME NEW l \in loads, ListTakesToken(l) PROVE MenuInv' /\ RowsInv'
    <3>1. /\ UNCHANGED <<active, known, menu, asking, rebuilds, switches, rows, crossed>>
          /\ loads' = (loads \ {l}) \cup {[l EXCEPT !.as = active]}
      BY <2>1 DEF ListTakesToken
    <3>2. [l EXCEPT !.as = active].as = active
      BY DEF WorkspaceTypes, Loading
    <3>3. RowsInv'
      BY <1>0, <3>1, <3>2 DEF RowsInv
    <3> QED
      BY <1>0, <3>1, <3>3, MenuStaysOwn
  <2>2. ASSUME NEW l \in loads, list_instances(l) PROVE MenuInv' /\ RowsInv'
    <3>1. /\ UNCHANGED <<active, known, menu, asking, rebuilds, switches, crossed>>
          /\ loads' = loads \ {l} /\ rows' = [rows EXCEPT ![l.project] = l.as]
      BY <2>2 DEF list_instances
    <3>2. RowsInv'
      BY <1>0, <3>1 DEF RowsInv, WorkspaceTypes
    <3> QED
      BY <1>0, <3>1, <3>2, MenuStaysOwn
  <2>3. ASSUME NEW l \in loads, ListFails(l) PROVE MenuInv' /\ RowsInv'
    <3>1. /\ UNCHANGED <<active, known, menu, asking, rebuilds, switches, crossed>>
          /\ loads' = loads \ {l} /\ rows' = [rows EXCEPT ![l.project] = NoAccount]
      BY <2>3 DEF ListFails
    <3> QED
      BY <1>0, <3>1, MenuStaysOwn, RowsStay DEF WorkspaceTypes
  <2>4. CASE list_projects
    <3>1. /\ UNCHANGED <<active, known, rebuilds, switches, loads, rows, crossed>>
          /\ asking /\ asking' = FALSE /\ menu' \in {active, NoAccount}
      BY <2>4 DEF list_projects
    <3>2. MenuInv'
      BY <3>1 DEF MenuInv
    <3> QED
      BY <1>0, <3>1, <3>2, RowsStay
  <2>5. CASE Refreshed
    <3>1. UNCHANGED <<active, known, menu, asking, rebuilds, switches, loads, rows, crossed>>
      BY <2>5 DEF Refreshed
    <3> QED
      BY <1>0, <3>1, MenuStaysOwn, RowsStay
  <2> QED
    BY <1>3, <2>1, <2>2, <2>3, <2>4, <2>5 DEF Answers
<1>4. CASE Accounting
  <2>1. CASE Rebuild
    <3>1. /\ UNCHANGED <<active, switches, loads, rows, crossed>>
          /\ known' = NoAccount /\ MenuFollows
      BY <2>1 DEF Rebuild
    <3>2. MenuInv'
      <4>1. CASE known' = known /\ UNCHANGED menuVars
        BY <3>1, <4>1 DEF MenuInv
      <4>2. CASE known' # known /\ menu' = NoAccount /\ asking' = (known' # NoAccount)
        <5>1. ~asking'
          BY <3>1, <4>2
        <5> QED
          BY <4>2, <5>1 DEF MenuInv
      <4> QED
        BY <3>1, <4>1, <4>2 DEF MenuFollows
    <3> QED
      BY <1>0, <3>1, <3>2, RowsStay
  <2>2. CASE ListAccounts
    <3>1. /\ UNCHANGED <<active, rebuilds, switches, loads, rows, crossed>> /\ MenuFollows
      BY <2>2 DEF ListAccounts, _loadAccounts
    <3> QED
      BY <1>0, <3>1, MenuReads, RowsStay
  <2> QED
    BY <1>4, <2>1, <2>2 DEF Accounting
<1>5. CASE Starting
  <2>1. UNCHANGED <<active, known, menu, asking, rebuilds, switches, crossed>>
    BY <1>5 DEF Starting, _loadSelectedProjects, ShowSelected, CheckAuth
  <2>2. \/ UNCHANGED <<loads, rows>>
        \/ Loads(0, selected)
    BY <1>5 DEF Starting, _loadSelectedProjects, ShowSelected, CheckAuth
  <2>3. RowsInv'
    <3>1. selected \in SUBSET Projects
      BY DEF WorkspaceTypes
    <3> QED
      BY <1>0, <2>1, <2>2, <3>1, RowsStay, RowsLoad
  <2> QED
    BY <1>0, <2>1, <2>3, MenuStaysOwn
<1>6. CASE Switching
  <2>1. PICK s \in switches : \/ saveProjectsForAccount(s) \/ switchGcloudAccount(s)
                              \/ SwitchListsAccounts(s) \/ switchToAccount(s) \/ SwitchLoads(s)
    BY <1>6 DEF Switching
  <2>0. /\ s \in Switch /\ \A at : [s EXCEPT !.at = at].at = at
        /\ s.found \in SUBSET Projects
    BY DEF WorkspaceTypes, Switch
  <2>2. CASE saveProjectsForAccount(s)
    <3>1. /\ UNCHANGED <<active, known, menu, asking, rebuilds, loads, rows, crossed>>
          /\ s.at = "tunnels" /\ switches' = (switches \ {s}) \cup {[s EXCEPT !.at = "switch"]}
      BY <2>2 DEF saveProjectsForAccount, Moves
    <3>2. NobodyCrosses' => NobodyCrosses
      BY <3>1 DEF NobodyCrosses, Crossing
    <3> QED
      BY <3>1, <3>2, MenuStaysOwn, RowsStay
  <2>3. CASE switchGcloudAccount(s)
    <3>1. UNCHANGED <<known, menu, asking, rebuilds, loads, rows, crossed>> /\ s.at = "switch"
      BY <2>3 DEF switchGcloudAccount
    <3>2. CASE Moves(s, "accounts")
      <4>1. ~NobodyCrosses'
        BY <2>0, <3>2 DEF NobodyCrosses, Crossing, Moves
      <4> QED
        BY <3>1, <4>1 DEF MenuInv, RowsInv
    <3>3. CASE switches' = switches \ {s} /\ active' = active
      <4>1. NobodyCrosses' => NobodyCrosses
        BY <3>1, <3>3 DEF NobodyCrosses, Crossing
      <4> QED
        BY <3>1, <3>3, <4>1, MenuStaysOwn, RowsStay
    <3> QED
      BY <2>3, <3>2, <3>3 DEF switchGcloudAccount
  <2>4. CASE SwitchListsAccounts(s)
    <3>1. /\ UNCHANGED <<active, rebuilds, loads, rows, crossed>> /\ MenuFollows
          /\ Moves(s, "restore")
      BY <2>4 DEF SwitchListsAccounts, _loadAccounts
    <3>2. ~NobodyCrosses'
      BY <2>0, <3>1 DEF NobodyCrosses, Crossing, Moves
    <3> QED
      BY <3>1, <3>2, MenuReads DEF RowsInv
  <2>5. CASE switchToAccount(s)
    <3>1. /\ UNCHANGED <<active, known, menu, asking, loads>>
          /\ rebuilds' = rebuilds + 2 /\ rows' = [p \in Projects |-> NoAccount]
          /\ crossed' = {l.project : l \in {m \in loads : m.as \notin {NoAccount, active}}}
      BY <2>5 DEF switchToAccount
    <3>2. MenuInv'
      BY <3>1 DEF MenuInv, WorkspaceTypes
    <3>3. RowsInv'
      BY <3>1 DEF RowsInv
    <3> QED
      BY <3>2, <3>3
  <2>6. CASE SwitchLoads(s)
    <3>1. /\ UNCHANGED <<active, known, menu, asking, rebuilds, crossed>> /\ s.at = "list"
          /\ switches' = switches \ {s} /\ Loads(s.by, s.found)
      BY <2>6 DEF SwitchLoads
    <3>2. NobodyCrosses' => NobodyCrosses
      BY <3>1 DEF NobodyCrosses, Crossing
    <3> QED
      BY <2>0, <3>1, <3>2, MenuStaysOwn, RowsLoad
  <2> QED
    BY <2>1, <2>2, <2>3, <2>4, <2>5, <2>6
<1>7. CASE _syncProjectsToActiveAccount
  <2>1. Head(writes) \in Written
    BY <1>7, HeadTailProperties DEF _syncProjectsToActiveAccount, WorkspaceTypes
  <2>2. /\ UNCHANGED <<active, known, menu, asking, rebuilds, switches, crossed>>
        /\ Loads(Head(writes).by, Head(writes).added)
        /\ Head(writes).added \in SUBSET Projects
    BY <1>7, <2>1 DEF _syncProjectsToActiveAccount, Written
  <2> QED
    BY <1>0, <2>2, MenuStaysOwn, RowsLoad
<1>8. CASE WorkspacePresses
  <2>1. ASSUME NEW p \in Projects, addProject(p) \/ removeProject(p) PROVE MenuInv' /\ RowsInv'
    <3>1. UNCHANGED <<active, known, menu, asking, rebuilds, switches, loads, crossed>>
      BY <2>1 DEF addProject, removeProject, Stores, Chose
    <3>2. \A x \in Projects : rows'[x] \in {rows[x], NoAccount}
      BY <2>1 DEF addProject, removeProject, WorkspaceTypes
    <3> QED
      BY <1>0, <3>1, <3>2, MenuStaysOwn, RowsStay
  <2>2. CASE clearAll
    <3>1. /\ UNCHANGED <<active, known, menu, asking, rebuilds, switches, loads, crossed>>
          /\ rows' = [p \in Projects |-> NoAccount]
      BY <2>2 DEF clearAll
    <3> QED
      BY <1>0, <3>1, MenuStaysOwn, RowsStay
  <2>3. CASE refreshAllProjects
    <3>1. /\ UNCHANGED <<active, known, menu, asking, rebuilds, switches, crossed>>
          /\ Loads(presses', selected) /\ selected \in SUBSET Projects
      BY <2>3 DEF refreshAllProjects, WorkspaceTypes
    <3> QED
      BY <1>0, <3>1, MenuStaysOwn, RowsLoad
  <2>4. CASE Restart
    BY <2>4 DEF Restart, Started, MenuInv, RowsInv
  <2>5. ASSUME NEW a \in Accounts, switchAccount(a) PROVE MenuInv' /\ RowsInv'
    <3>1. /\ UNCHANGED <<active, known, menu, asking, rebuilds, loads, rows, crossed>>
          /\ switches \subseteq switches'
      BY <2>5 DEF switchAccount
    <3>2. NobodyCrosses' => NobodyCrosses
      BY <3>1 DEF NobodyCrosses, Crossing
    <3> QED
      BY <3>1, <3>2, MenuStaysOwn, RowsStay
  <2> QED
    BY <1>8, <2>1, <2>2, <2>3, <2>4, <2>5 DEF WorkspacePresses
<1> QED
  BY <1>1, <1>3, <1>4, <1>5, <1>6, <1>7, <1>8 DEF WorkspaceNext, WorkspaceSteps

(* Nothing is spared of a choice made in the middle of something.          *)
AllOrNothing == spoilt \in {{}, Accounts}

(* As long as nothing was spoilt, one thing is done at a time.             *)
OneSwitch     == \A s, t \in switches : s = t
StartsAlone   == starting.at \in {"accounts", "show"} =>
                    switches = {} /\ writes = <<>> /\ selected = {}
WritesAlone   == writes # <<>> =>
                    /\ Tail(writes) = <<>> /\ switches = {} /\ rebuilds = 0 /\ ~listing
                    /\ known = active /\ Head(writes).set = meant[active]
SwitchesAlone ==
    \A s \in switches :
        /\ writes = <<>> /\ (s.at # "list" => rebuilds = 0 /\ ~listing)
        /\ s.at \in {"tunnels", "switch"} => known = active /\ s.previous = active
        /\ s.at = "accounts" => known = s.previous /\ known # NoAccount
        /\ Crossing(s) => active = s.to
KnownIsActive == known \in {NoAccount, active} \/ \E s \in switches : s.at = "accounts"
OneThing == OneSwitch /\ StartsAlone /\ WritesAlone /\ SwitchesAlone /\ KnownIsActive

(* What is stored, per account and as "the" selection, is what was meant.  *)
StoredIsMeant ==
    \A a \in Accounts :
        (migrated \/ a # active) /\ (writes = <<>> \/ a # active) => saved[a] = meant[a]
GlobalIsMeant ==
    ~migrated =>
        /\ \A a \in Accounts : saved[a] = {}
        /\ writes = <<>> => global = meant[active]
        /\ (known # NoAccount \/ switches # {}) /\ writes = <<>> => global = {}

(* What is shown too.                                                      *)
ShownIsMeant ==
    /\ starting.at \in {"no", "auth"} /\ NobodyCrosses => selected = meant[active]
    /\ starting.at = "show" => starting.found = meant[active]

Kept     == OneThing /\ StoredIsMeant /\ GlobalIsMeant /\ ShownIsMeant
MeantInv == spoilt = {} => Kept

LEMMA AllOrNothingStays ==
    ASSUME WorkspaceTypes, AllOrNothing, [WorkspaceNext]_workspaceVars
    PROVE  AllOrNothing' /\ (spoilt' = {} => spoilt = {})
<1>1. spoilt' \in {spoilt, Accounts}
  BY DEF WorkspaceNext, WorkspaceSteps, WorkspacePresses, Answers, Accounting, Starting, Switching,
         Press, WorkspaceStays, ListTakesToken, list_instances, ListFails, list_projects, Refreshed,
         Rebuild, ListAccounts, _loadSelectedProjects, ShowSelected, CheckAuth,
         saveProjectsForAccount, switchGcloudAccount, SwitchListsAccounts, switchToAccount,
         SwitchLoads, _syncProjectsToActiveAccount, addProject, removeProject, Stores, Chose,
         clearAll, refreshAllProjects, Restart, switchAccount, workspaceVars, historyVars
<1>2. Accounts # {}
  BY DEF WorkspaceTypes
<1> QED
  BY <1>1, <1>2 DEF AllOrNothing

LEMMA MeantAtStart == WorkspaceInit => AllOrNothing /\ MeantInv
<1> SUFFICES ASSUME WorkspaceInit PROVE AllOrNothing /\ Kept
  BY DEF MeantInv
<1>1. OneThing
  BY DEF WorkspaceInit, OneThing, OneSwitch, StartsAlone, WritesAlone, SwitchesAlone, KnownIsActive
<1>2. \A a \in Accounts : meant[a] = IF a = active THEN global ELSE saved[a]
  BY DEF WorkspaceInit
<1>3. StoredIsMeant /\ GlobalIsMeant /\ ShownIsMeant
  BY <1>2 DEF WorkspaceInit, StoredIsMeant, GlobalIsMeant, ShownIsMeant
<1> QED
  BY <1>1, <1>3 DEF AllOrNothing, Kept, WorkspaceInit

(* A step that touches none of it.                                         *)
LEMMA MeantStays ==
    ASSUME Kept, UNCHANGED <<active, known, rebuilds, listing, starting, switches, writes, selected,
                             saved, migrated, global, meant>>
    PROVE  Kept'
BY DEF Kept, OneThing, OneSwitch, StartsAlone, WritesAlone, SwitchesAlone, KnownIsActive, Crossing,
       StoredIsMeant, GlobalIsMeant, ShownIsMeant, NobodyCrosses

(* The account list: what is read of it while nothing else is done.        *)
LEMMA MeantRebuilds ==
    ASSUME WorkspaceTypes, Kept, Rebuild
    PROVE  Kept'
<1> USE DEF accountVars, menuVars, shownVars, storedVars, taskVars, loadVars, historyVars
<1>1. /\ UNCHANGED <<active, starting, switches, writes, selected, saved, migrated, global, meant>>
      /\ known' = NoAccount /\ rebuilds > 0
  BY DEF Rebuild
<1>2. OneThing'
  BY <1>1 DEF Kept, OneThing, OneSwitch, StartsAlone, WritesAlone, SwitchesAlone, KnownIsActive, Crossing
<1> QED
  BY <1>1, <1>2 DEF Kept, StoredIsMeant, GlobalIsMeant, ShownIsMeant, NobodyCrosses, Crossing

LEMMA MeantReads ==
    ASSUME WorkspaceTypes, Kept, _loadAccounts, writes = <<>>,
           UNCHANGED <<active, global, starting, writes, selected, meant>>
    PROVE  /\ StoredIsMeant' /\ (known' # NoAccount => migrated' \/ global = {})
           /\ known' \in {NoAccount, active}
           /\ (~migrated' => ~migrated /\ UNCHANGED <<saved, migrated>>)
<1>1. CASE known' = active /\ migrateProjectsToAccount(active)
  <2>1. CASE ~migrated /\ global # {}
    <3>1. saved' = [saved EXCEPT ![active] = global] /\ migrated' = TRUE
      BY <1>1, <2>1 DEF migrateProjectsToAccount, saveAccountProjects
    <3>2. global = meant[active]
      BY <2>1 DEF Kept, GlobalIsMeant
    <3>3. \A a \in Accounts : saved'[a] = IF a = active THEN global ELSE saved[a]
      BY <3>1 DEF WorkspaceTypes
    <3> QED
      BY <1>1, <3>1, <3>2, <3>3 DEF Kept, StoredIsMeant
  <2>2. CASE ~(~migrated /\ global # {})
    <3>1. UNCHANGED <<saved, migrated>>
      BY <1>1, <2>2 DEF migrateProjectsToAccount
    <3> QED
      BY <1>1, <2>2, <3>1 DEF Kept, StoredIsMeant
  <2> QED
    BY <2>1, <2>2
<1>2. CASE known' = NoAccount /\ UNCHANGED <<saved, migrated>>
  BY <1>2 DEF Kept, StoredIsMeant
<1> QED
  BY <1>1, <1>2 DEF _loadAccounts

LEMMA MeantListsAccounts ==
    ASSUME WorkspaceTypes, Kept, ListAccounts
    PROVE  Kept'
<1> USE DEF accountVars, menuVars, shownVars, storedVars, taskVars, loadVars, historyVars
<1>1. /\ UNCHANGED <<active, rebuilds, starting, switches, writes, selected, global, meant>>
      /\ listing /\ ~listing' /\ _loadAccounts
  BY DEF ListAccounts
<1>2. writes = <<>> /\ \A s \in switches : s.at = "list"
  BY <1>1 DEF Kept, OneThing, WritesAlone, SwitchesAlone
<1>3. /\ StoredIsMeant' /\ (known' # NoAccount => migrated' \/ global = {})
      /\ known' \in {NoAccount, active}
      /\ (~migrated' => ~migrated /\ UNCHANGED <<saved, migrated>>)
  BY <1>1, <1>2, MeantReads
<1>4. OneThing'
  BY <1>1, <1>2, <1>3 DEF Kept, OneThing, OneSwitch, StartsAlone, WritesAlone, SwitchesAlone, KnownIsActive,
     Crossing
<1>5. GlobalIsMeant'
  BY <1>1, <1>2, <1>3 DEF Kept, GlobalIsMeant
<1>6. ShownIsMeant'
  BY <1>1 DEF Kept, ShownIsMeant, NobodyCrosses, Crossing
<1> QED
  BY <1>3, <1>4, <1>5, <1>6 DEF Kept

(* The start.                                                              *)
LEMMA MeantStarts ==
    ASSUME WorkspaceTypes, Kept, _loadSelectedProjects, spoilt' = {}
    PROVE  Kept'
<1> USE DEF accountVars, menuVars, shownVars, storedVars, taskVars, loadVars, historyVars
<1>1. /\ UNCHANGED <<active, known, rebuilds, listing, switches, writes, selected, meant>>
      /\ starting.at = "accounts" /\ switches = {} /\ writes = <<>> /\ selected = {}
      /\ migrateProjectsToAccount(active) /\ global' = saved'[active]
      /\ starting' = [at |-> IF global' = {} THEN "no" ELSE "show", found |-> global']
  BY DEF _loadSelectedProjects, Kept, OneThing, StartsAlone, WorkspaceTypes
<1>2. active \in Accounts /\ migrated \in BOOLEAN /\ saved \in [Accounts -> SUBSET Projects]
  BY DEF WorkspaceTypes
<1>3. /\ saved'[active] = meant[active]
      /\ \A a \in Accounts \ {active} : saved'[a] = saved[a]
      /\ migrated' \/ (saved' = saved /\ ~migrated /\ meant[active] = {})
  <2>1. CASE ~migrated /\ global # {}
    BY <1>1, <1>2, <2>1 DEF migrateProjectsToAccount, saveAccountProjects, Kept, GlobalIsMeant
  <2>2. CASE migrated
    BY <1>1, <1>2, <2>2 DEF migrateProjectsToAccount, Kept, StoredIsMeant
  <2>3. CASE ~migrated /\ global = {}
    BY <1>1, <1>2, <2>3 DEF migrateProjectsToAccount, Kept, GlobalIsMeant
  <2> QED
    BY <2>1, <2>2, <2>3
<1>4. global' = meant[active]
  BY <1>1, <1>3
<1>5. OneThing'
  BY <1>1 DEF Kept, OneThing, OneSwitch, StartsAlone, WritesAlone, SwitchesAlone, KnownIsActive, Crossing
<1>6. StoredIsMeant' /\ GlobalIsMeant'
  BY <1>1, <1>2, <1>3, <1>4 DEF Kept, StoredIsMeant, GlobalIsMeant
<1>7. ShownIsMeant'
  BY <1>1, <1>4 DEF ShownIsMeant
<1> QED
  BY <1>5, <1>6, <1>7 DEF Kept

LEMMA MeantIsShown ==
    ASSUME WorkspaceTypes, Kept, ShowSelected \/ CheckAuth
    PROVE  Kept'
<1> USE DEF accountVars, menuVars, shownVars, storedVars, taskVars, loadVars, historyVars
<1>1. /\ UNCHANGED <<active, known, rebuilds, listing, switches, writes, saved, migrated, global, meant>>
      /\ starting'.at \in {"no", "auth"}
      /\ \/ starting.at = "show" /\ selected' = starting.found
         \/ starting.at = "auth" /\ selected' = selected
  BY DEF ShowSelected, CheckAuth
<1>2. OneThing'
  BY <1>1 DEF Kept, OneThing, OneSwitch, StartsAlone, WritesAlone, SwitchesAlone, KnownIsActive, Crossing
<1>3. ShownIsMeant'
  BY <1>1 DEF Kept, ShownIsMeant, NobodyCrosses, Crossing
<1> QED
  BY <1>1, <1>2, <1>3 DEF Kept, StoredIsMeant, GlobalIsMeant

(* A choice: it is shown at once, and stored in the step that follows.     *)
LEMMA MeantIsChosen ==
    ASSUME WorkspaceTypes, Kept, NEW set \in SUBSET Projects, NEW added, Stores(set, added),
           spoilt' = {}
    PROVE  Kept'
<1> USE DEF accountVars, menuVars, shownVars, storedVars, taskVars, loadVars, historyVars
<1>1. active \in Accounts /\ meant \in [Accounts -> SUBSET Projects] /\ known \in Someone
  BY DEF WorkspaceTypes
<1>2. Calm /\ known # NoAccount /\ meant' = [meant EXCEPT ![known] = set]
  BY <1>1 DEF Stores, Chose
<1>3. /\ UNCHANGED <<active, known, rebuilds, listing, starting, switches, saved, migrated>>
      /\ selected' = set /\ global' = set
      /\ writes' = Append(<<>>, [set |-> set, by |-> presses', added |-> added])
  BY <1>2 DEF Stores, Calm
<1>4. writes' # <<>> /\ Tail(writes') = <<>> /\ Head(writes').set = set
  BY <1>3
<1>5. known = active
  BY <1>2 DEF Kept, OneThing, KnownIsActive, Calm
<1>6. meant'[active] = set /\ \A a \in Accounts \ {active} : meant'[a] = meant[a]
  BY <1>1, <1>2, <1>5
<1>7. OneThing'
  BY <1>2, <1>3, <1>4, <1>5, <1>6 DEF Calm, OneThing, OneSwitch, StartsAlone, WritesAlone,
     SwitchesAlone, KnownIsActive
<1>8. StoredIsMeant' /\ GlobalIsMeant'
  BY <1>3, <1>4, <1>6 DEF Kept, StoredIsMeant, GlobalIsMeant
<1>9. ShownIsMeant'
  BY <1>2, <1>3, <1>6 DEF ShownIsMeant, Calm
<1> QED
  BY <1>7, <1>8, <1>9 DEF Kept

LEMMA MeantIsStored ==
    ASSUME WorkspaceTypes, Kept, _syncProjectsToActiveAccount
    PROVE  Kept'
<1> USE DEF accountVars, menuVars, shownVars, storedVars, taskVars, loadVars, historyVars
<1>1. active \in Accounts /\ saved \in [Accounts -> SUBSET Projects] /\ active # NoAccount
  BY WorkspaceAssumption DEF WorkspaceTypes
<1>2. /\ writes # <<>> /\ Tail(writes) = <<>> /\ switches = {} /\ rebuilds = 0 /\ ~listing
      /\ known = active /\ Head(writes).set = meant[active]
  BY DEF _syncProjectsToActiveAccount, Kept, OneThing, WritesAlone
<1>3. /\ UNCHANGED <<active, known, rebuilds, listing, starting, switches, selected, global, meant>>
      /\ writes' = <<>> /\ migrated' = TRUE /\ saved' = [saved EXCEPT ![active] = meant[active]]
  BY <1>1, <1>2 DEF _syncProjectsToActiveAccount, saveAccountProjects
<1>4. OneThing'
  BY <1>2, <1>3 DEF Kept, OneThing, OneSwitch, StartsAlone, WritesAlone, SwitchesAlone, KnownIsActive,
     Crossing
<1>5. StoredIsMeant' /\ GlobalIsMeant'
  BY <1>1, <1>3 DEF Kept, StoredIsMeant, GlobalIsMeant
<1>6. ShownIsMeant'
  BY <1>3 DEF Kept, ShownIsMeant, NobodyCrosses
<1> QED
  BY <1>4, <1>5, <1>6 DEF Kept

LEMMA MeantSurvives ==
    ASSUME WorkspaceTypes, Kept, Restart, spoilt' = {}
    PROVE  Kept'
<1> USE DEF accountVars, menuVars, shownVars, storedVars, taskVars, loadVars, historyVars
<1>0. Accounts # {}
  BY DEF WorkspaceTypes
<1>1. /\ UNCHANGED <<active, saved, migrated, global, meant>>
      /\ known' = NoAccount /\ starting'.at = "accounts" /\ switches' = {} /\ writes' = <<>>
      /\ selected' = {} /\ Calm
  BY <1>0 DEF Restart, Started
<1>2. OneThing'
  BY <1>1 DEF OneThing, OneSwitch, StartsAlone, WritesAlone, SwitchesAlone, KnownIsActive
<1>3. StoredIsMeant' /\ GlobalIsMeant' /\ ShownIsMeant'
  BY <1>1 DEF Kept, StoredIsMeant, GlobalIsMeant, ShownIsMeant, Calm
<1> QED
  BY <1>2, <1>3 DEF Kept

(* A switch, from its press on.                                            *)
LEMMA MeantIsLeft ==
    ASSUME WorkspaceTypes, Kept, NEW a \in Accounts, switchAccount(a), spoilt' = {}
    PROVE  Kept'
<1> USE DEF accountVars, menuVars, shownVars, storedVars, taskVars, loadVars, historyVars
<1> DEFINE new == [by |-> presses', at |-> "tunnels", to |-> a, previous |-> known, found |-> {}]
<1>0. Accounts # {}
  BY DEF WorkspaceTypes
<1>1. /\ UNCHANGED <<active, known, rebuilds, listing, starting, writes, selected, saved, migrated,
                     global, meant>>
      /\ switches' = {new} /\ Calm /\ known # NoAccount
  BY <1>0 DEF switchAccount, Calm
<1>2. new.at = "tunnels" /\ new.previous = known
  OBVIOUS
<1> HIDE DEF new
<1>3. known = active
  BY <1>1 DEF Kept, OneThing, KnownIsActive, Calm
<1>4. OneThing'
  <2>1. OneSwitch' /\ StartsAlone' /\ WritesAlone' /\ KnownIsActive'
    BY <1>1, <1>3 DEF Calm, OneSwitch, StartsAlone, WritesAlone, KnownIsActive
  <2>2. SwitchesAlone'
    BY <1>1, <1>2, <1>3 DEF Calm, SwitchesAlone, Crossing
  <2> QED
    BY <2>1, <2>2 DEF OneThing
<1>5. StoredIsMeant' /\ GlobalIsMeant'
  BY <1>1 DEF Kept, StoredIsMeant, GlobalIsMeant
<1>6. ShownIsMeant'
  BY <1>1 DEF Kept, ShownIsMeant, Calm, NobodyCrosses
<1> QED
  BY <1>4, <1>5, <1>6 DEF Kept

(* What is known of the one switch there is.                               *)
LEMMA TheSwitch ==
    ASSUME WorkspaceTypes, Kept, NEW s \in switches
    PROVE  /\ switches = {s} /\ starting.at \in {"no", "auth"} /\ writes = <<>> /\ s \in Switch
           /\ \A at : Moves(s, at) => switches' = {[s EXCEPT !.at = at]}
           /\ \A at : [s EXCEPT !.at = at].at = at /\ [s EXCEPT !.at = at].to = s.to
                      /\ [s EXCEPT !.at = at].previous = s.previous
           /\ ~migrated => global = {} /\ \A a \in Accounts : saved[a] = {} /\ meant[a] = {}
           /\ \A a \in Accounts : (s.at # "tunnels" \/ a # active) /\ migrated => saved[a] = meant[a]
<1>1. switches = {s} /\ s \in Switch
  BY DEF Kept, OneThing, OneSwitch, WorkspaceTypes
<1>2. writes = <<>> /\ starting.at \in {"no", "auth"}
  BY <1>1 DEF Kept, OneThing, StartsAlone, SwitchesAlone, WorkspaceTypes
<1>3. \A at : Moves(s, at) => switches' = {[s EXCEPT !.at = at]}
  BY <1>1 DEF Moves
<1>4. \A at : [s EXCEPT !.at = at].at = at /\ [s EXCEPT !.at = at].to = s.to
              /\ [s EXCEPT !.at = at].previous = s.previous
  BY <1>1 DEF Switch
<1>5. ~migrated => global = {} /\ \A a \in Accounts : saved[a] = {} /\ meant[a] = {}
  BY <1>1, <1>2 DEF Kept, GlobalIsMeant, StoredIsMeant
<1> QED
  BY <1>1, <1>2, <1>3, <1>4, <1>5 DEF Kept, StoredIsMeant

LEMMA MeantIsSaved ==
    ASSUME WorkspaceTypes, Kept, NEW s \in switches, saveProjectsForAccount(s)
    PROVE  Kept'
<1> USE DEF accountVars, menuVars, shownVars, storedVars, taskVars, loadVars, historyVars
<1>1. /\ UNCHANGED <<active, known, rebuilds, listing, starting, writes, selected, global, meant>>
      /\ s.at = "tunnels" /\ Moves(s, "switch")
  BY DEF saveProjectsForAccount
<1>2. switches = {s} /\ switches' = {[s EXCEPT !.at = "switch"]} /\ writes = <<>>
  BY <1>1, TheSwitch
<1>3. known = active /\ s.previous = active /\ rebuilds = 0 /\ ~listing
  BY <1>1 DEF Kept, OneThing, SwitchesAlone
<1>4. selected = meant[active]
  BY <1>1, <1>2, TheSwitch DEF Kept, ShownIsMeant, NobodyCrosses, Crossing
<1>5. active \in Accounts /\ saved \in [Accounts -> SUBSET Projects]
  BY DEF WorkspaceTypes
<1>6. StoredIsMeant' /\ GlobalIsMeant'
  <2>1. CASE selected = {}
    BY <1>1, <1>2, <2>1 DEF saveProjectsForAccount, Kept, StoredIsMeant, GlobalIsMeant
  <2>2. CASE selected # {}
    <3>1. saved' = [saved EXCEPT ![active] = meant[active]] /\ migrated'
      BY <1>3, <1>4, <2>2 DEF saveProjectsForAccount, saveAccountProjects
    <3> QED
      BY <1>1, <1>5, <3>1 DEF Kept, StoredIsMeant, GlobalIsMeant
  <2> QED
    BY <2>1, <2>2
<1>7. OneThing'
  <2>1. OneSwitch' /\ StartsAlone' /\ WritesAlone' /\ KnownIsActive'
    BY <1>1, <1>2, <1>3, TheSwitch DEF OneSwitch, StartsAlone, WritesAlone, KnownIsActive
  <2>2. SwitchesAlone'
    <3>1. \A t \in switches' : t.at = "switch" /\ t.previous = s.previous
      BY <1>2, TheSwitch DEF Switch
    <3> QED
      BY <1>1, <1>2, <1>3, <3>1 DEF SwitchesAlone, Crossing
  <2> QED
    BY <2>1, <2>2 DEF OneThing
<1>8. ShownIsMeant'
  BY <1>1, <1>4, TheSwitch DEF ShownIsMeant
<1> QED
  BY <1>6, <1>7, <1>8 DEF Kept

LEMMA MeantIsOthers ==
    ASSUME WorkspaceTypes, Kept, NEW s \in switches, switchGcloudAccount(s)
    PROVE  Kept'
<1> USE DEF accountVars, menuVars, shownVars, storedVars, taskVars, loadVars, historyVars
<1>1. /\ UNCHANGED <<known, rebuilds, listing, starting, writes, selected, saved, migrated, global, meant>>
      /\ s.at = "switch"
  BY DEF switchGcloudAccount
<1>2. switches = {s} /\ writes = <<>> /\ starting.at \in {"no", "auth"} /\ s.to \in Accounts
  BY TheSwitch DEF Switch
<1>3. known = active /\ s.previous = active /\ rebuilds = 0 /\ ~listing
  BY <1>1 DEF Kept, OneThing, SwitchesAlone
<1>4. CASE active' = s.to /\ Moves(s, "accounts")
  <2>1. switches' = {[s EXCEPT !.at = "accounts"]}
    BY <1>4, TheSwitch
  <2>2. StoredIsMeant' /\ GlobalIsMeant'
    BY <1>1, <1>2, <1>4, TheSwitch DEF StoredIsMeant, GlobalIsMeant
  <2>3. OneSwitch' /\ StartsAlone' /\ WritesAlone' /\ KnownIsActive'
    BY <1>1, <1>2, <2>1, TheSwitch DEF OneSwitch, StartsAlone, WritesAlone, KnownIsActive
  <2>4. SwitchesAlone'
    <3>1. known # NoAccount
      BY <1>3, WorkspaceAssumption DEF WorkspaceTypes
    <3>2. \A t \in switches' : t.at = "accounts" /\ t.previous = s.previous /\ t.to = s.to
      BY <2>1, TheSwitch DEF Switch
    <3> QED
      BY <1>1, <1>2, <1>3, <1>4, <3>1, <3>2 DEF SwitchesAlone, Crossing
  <2>5. ShownIsMeant'
    BY <1>1, <1>2, <2>1, TheSwitch DEF ShownIsMeant, NobodyCrosses, Crossing
  <2> QED
    BY <2>2, <2>3, <2>4, <2>5 DEF Kept, OneThing
<1>5. CASE switches' = switches \ {s} /\ active' = active
  <2>1. switches' = {}
    BY <1>2, <1>5
  <2>2. OneThing'
    BY <1>1, <1>2, <1>3, <1>5, <2>1 DEF OneThing, OneSwitch, StartsAlone, WritesAlone, SwitchesAlone,
       KnownIsActive
  <2>3. StoredIsMeant' /\ GlobalIsMeant'
    BY <1>1, <1>2, <1>5, <2>1 DEF Kept, StoredIsMeant, GlobalIsMeant
  <2>4. ShownIsMeant'
    BY <1>1, <1>2, <1>5 DEF Kept, ShownIsMeant, NobodyCrosses, Crossing
  <2> QED
    BY <2>2, <2>3, <2>4 DEF Kept
<1> QED
  BY <1>4, <1>5 DEF switchGcloudAccount

LEMMA MeantIsRead ==
    ASSUME WorkspaceTypes, Kept, NEW s \in switches, SwitchListsAccounts(s)
    PROVE  Kept'
<1> USE DEF accountVars, menuVars, shownVars, storedVars, taskVars, loadVars, historyVars
<1>1. /\ UNCHANGED <<active, rebuilds, listing, starting, writes, selected, global, meant>>
      /\ s.at = "accounts" /\ Moves(s, "restore") /\ _loadAccounts
  BY DEF SwitchListsAccounts
<1>2. /\ switches = {s} /\ writes = <<>> /\ switches' = {[s EXCEPT !.at = "restore"]}
      /\ starting.at \in {"no", "auth"}
  BY <1>1, TheSwitch
<1>3. rebuilds = 0 /\ ~listing /\ active = s.to
  BY <1>1 DEF Kept, OneThing, SwitchesAlone, Crossing
<1>4. /\ StoredIsMeant' /\ known' \in {NoAccount, active}
      /\ (~migrated' => ~migrated /\ UNCHANGED <<saved, migrated>>)
  BY <1>1, <1>2, MeantReads
<1>5. OneThing'
  <2>1. OneSwitch' /\ StartsAlone' /\ WritesAlone' /\ KnownIsActive'
    BY <1>1, <1>2, <1>4 DEF OneSwitch, StartsAlone, WritesAlone, KnownIsActive
  <2>2. SwitchesAlone'
    <3>1. \A t \in switches' : t.at = "restore" /\ t.to = s.to
      BY <1>2, TheSwitch DEF Switch
    <3> QED
      BY <1>1, <1>2, <1>3, <3>1 DEF SwitchesAlone, Crossing
  <2> QED
    BY <2>1, <2>2 DEF OneThing
<1>6. GlobalIsMeant'
  BY <1>1, <1>2, <1>4, TheSwitch DEF GlobalIsMeant, WorkspaceTypes
<1>7. ShownIsMeant'
  BY <1>1, <1>2, TheSwitch DEF ShownIsMeant, NobodyCrosses, Crossing
<1> QED
  BY <1>4, <1>5, <1>6, <1>7 DEF Kept

LEMMA MeantIsRestored ==
    ASSUME WorkspaceTypes, Kept, NEW s \in switches, switchToAccount(s)
    PROVE  Kept'
<1> USE DEF accountVars, menuVars, shownVars, storedVars, taskVars, loadVars, historyVars
<1> DEFINE next == [s EXCEPT !.at = "list", !.found = saved[s.to]]
<1>1. /\ UNCHANGED <<active, known, listing, starting, writes, saved, migrated, meant>>
      /\ s.at = "restore" /\ selected' = saved[s.to] /\ global' = saved[s.to]
      /\ switches' = (switches \ {s}) \cup {next}
  BY DEF switchToAccount
<1>2. /\ switches = {s} /\ writes = <<>> /\ starting.at \in {"no", "auth"} /\ switches' = {next}
  BY <1>1, TheSwitch
<1>3. active = s.to /\ known \in {NoAccount, active}
  BY <1>1, <1>2 DEF Kept, OneThing, SwitchesAlone, Crossing, KnownIsActive
<1>4. next.at = "list"
  BY TheSwitch DEF Switch
<1> HIDE DEF next
<1>5. active \in Accounts /\ saved[active] = meant[active]
  BY <1>1, TheSwitch DEF WorkspaceTypes
<1>6. OneThing'
  BY <1>1, <1>2, <1>3, <1>4 DEF OneThing, OneSwitch, StartsAlone, WritesAlone, SwitchesAlone,
     KnownIsActive, Crossing
<1>7. StoredIsMeant' /\ GlobalIsMeant' /\ ShownIsMeant'
  BY <1>1, <1>2, <1>3, <1>5, TheSwitch DEF StoredIsMeant, GlobalIsMeant, ShownIsMeant
<1> QED
  BY <1>6, <1>7 DEF Kept

LEMMA MeantIsListed ==
    ASSUME WorkspaceTypes, Kept, NEW s \in switches, SwitchLoads(s)
    PROVE  Kept'
<1> USE DEF accountVars, menuVars, shownVars, storedVars, taskVars, loadVars, historyVars
<1>1. /\ UNCHANGED <<active, known, rebuilds, listing, starting, writes, selected, saved, migrated,
                     global, meant>>
      /\ s.at = "list" /\ switches' = switches \ {s}
  BY DEF SwitchLoads
<1>2. /\ switches = {s} /\ writes = <<>> /\ starting.at \in {"no", "auth"} /\ switches' = {}
  BY <1>1, TheSwitch
<1>3. known \in {NoAccount, active}
  BY <1>1, <1>2 DEF Kept, OneThing, KnownIsActive
<1>4. OneThing'
  BY <1>1, <1>2, <1>3 DEF OneThing, OneSwitch, StartsAlone, WritesAlone, SwitchesAlone,
     KnownIsActive
<1>5. StoredIsMeant' /\ GlobalIsMeant' /\ ShownIsMeant'
  BY <1>1, <1>2 DEF Kept, StoredIsMeant, GlobalIsMeant, ShownIsMeant, NobodyCrosses, Crossing
<1> QED
  BY <1>4, <1>5 DEF Kept

(* Every step keeps what is meant, until something is spoilt.              *)
LEMMA MeantKept ==
    WorkspaceTypes /\ AllOrNothing /\ MeantInv /\ [WorkspaceNext]_workspaceVars
        => AllOrNothing' /\ MeantInv'
<1> SUFFICES ASSUME WorkspaceTypes, AllOrNothing, MeantInv, [WorkspaceNext]_workspaceVars,
                    spoilt' = {}
             PROVE  Kept'
  BY AllOrNothingStays DEF MeantInv
<1> USE DEF accountVars, menuVars, shownVars, storedVars, taskVars, loadVars, historyVars
<1>0. Kept
  BY AllOrNothingStays DEF MeantInv
<1>1. CASE UNCHANGED workspaceVars \/ (Press /\ WorkspaceStays)
  BY <1>0, <1>1, MeantStays DEF workspaceVars, WorkspaceStays
<1>2. CASE Answers
  <2>1. UNCHANGED <<active, known, rebuilds, listing, starting, switches, writes, selected,
                    saved, migrated, global, meant>>
    BY <1>2 DEF Answers, ListTakesToken, list_instances, ListFails, list_projects, Refreshed
  <2> QED
    BY <1>0, <2>1, MeantStays
<1>3. CASE Accounting
  BY <1>0, <1>3, MeantRebuilds, MeantListsAccounts DEF Accounting
<1>4. CASE Starting
  BY <1>0, <1>4, MeantStarts, MeantIsShown DEF Starting
<1>5. CASE Switching
  BY <1>0, <1>5, MeantIsSaved, MeantIsOthers, MeantIsRead, MeantIsRestored, MeantIsListed
  DEF Switching
<1>6. CASE _syncProjectsToActiveAccount
  BY <1>0, <1>6, MeantIsStored
<1>7. CASE WorkspacePresses
  <2>1. ASSUME NEW p \in Projects, addProject(p) \/ removeProject(p) PROVE Kept'
    <3>1. selected \cup {p} \in SUBSET Projects /\ selected \ {p} \in SUBSET Projects
      BY DEF WorkspaceTypes
    <3> QED
      BY <1>0, <2>1, <3>1, MeantIsChosen DEF addProject, removeProject
  <2>2. ~clearAll
    BY DEF clearAll, WorkspaceTypes
  <2>3. CASE refreshAllProjects
    <3>1. UNCHANGED <<active, known, rebuilds, listing, starting, switches, writes, selected,
                      saved, migrated, global, meant>>
      BY <2>3 DEF refreshAllProjects
    <3> QED
      BY <1>0, <3>1, MeantStays
  <2>4. CASE Restart
    BY <1>0, <2>4, MeantSurvives
  <2>5. ASSUME NEW a \in Accounts, switchAccount(a) PROVE Kept'
    BY <1>0, <2>5, MeantIsLeft
  <2> QED
    BY <1>7, <2>1, <2>2, <2>3, <2>4, <2>5 DEF WorkspacePresses
<1> QED
  BY <1>1, <1>2, <1>3, <1>4, <1>5, <1>6, <1>7 DEF WorkspaceNext, WorkspaceSteps

WorkspaceInv == WorkspaceTypes /\ MenuInv /\ RowsInv /\ AllOrNothing /\ MeantInv

LEMMA WorkspaceInvariant == WorkspaceSpec => []WorkspaceInv
<1>1. WorkspaceInit => WorkspaceInv
  BY TypesAtStart, OwnAtStart, MeantAtStart DEF WorkspaceInv
<1>2. WorkspaceInv /\ [WorkspaceNext]_workspaceVars => WorkspaceInv'
  BY TypesKept, OwnKept, MeantKept DEF WorkspaceInv
<1> QED
  BY <1>1, <1>2, PTL DEF WorkspaceSpec

(* Through any switches, failures and restarts that do not fall into each  *)
(* other, by any accounts and for any projects, each account gets its      *)
(* selection back: SelectionIsRestored names what ends the promise.        *)
THEOREM SelectionReturns == WorkspaceSpec => []SelectionIsRestored
<1>1. WorkspaceInv => SelectionIsRestored
  <2> SUFFICES ASSUME WorkspaceInv, Calm, known \in Accounts \ spoilt
               PROVE  selected = meant[known]
    BY DEF SelectionIsRestored
  <2>1. Kept
    BY DEF WorkspaceInv, AllOrNothing, MeantInv
  <2>2. known = active
    BY <2>1, WorkspaceAssumption DEF Kept, OneThing, KnownIsActive, Calm
  <2> QED
    BY <2>1, <2>2 DEF Kept, ShownIsMeant, NobodyCrosses, Calm
<1> QED
  BY <1>1, WorkspaceInvariant, PTL

(* Nor does a row or the project list show another account's: but for the  *)
(* projects of which a listing outlived its account.                       *)
THEOREM RowsStayOwn == WorkspaceSpec => []RowsAreOfTheirAccount
<1>1. WorkspaceInv => RowsAreOfTheirAccount
  <2> SUFFICES ASSUME WorkspaceInv, Calm
               PROVE  /\ \A p \in selected \ crossed : rows[p] \in {NoAccount, active}
                      /\ menu \in {NoAccount, active}
    BY DEF RowsAreOfTheirAccount
  <2>1. NobodyCrosses /\ rebuilds = 0
    BY DEF NobodyCrosses, Calm
  <2> QED
    BY <2>1 DEF WorkspaceInv, MenuInv, RowsInv, WorkspaceTypes
<1> QED
  BY <1>1, WorkspaceInvariant, PTL

----------------------------------------------------------------------------
(* The panels of a VM                                                      *)

IsCall(c) == DOMAIN c = {"by", "fn", "at", "q", "found"} /\ c.fn \in Functions

(* Where a call may be, by what it is for.                                 *)
CallsInPlace ==
    \A c \in calls :
        /\ IsCall(c)
        /\ c.at = "agent" => c.fn = "get_vm_diagnostics"
        /\ c.at = "answer" => c.fn \in {"list_snapshots", "sftp_list_directory"}
        /\ c.at = "disk" => c.fn \in {"list_snapshots", "create_snapshot"}
        /\ c.at \in {"done", "given up"} => c.fn \notin Reads
        /\ c.at = "given up" => c.fn \in SnapshotCalls /\ "snapshots" \in unsure

(* A panel that was not asked twice at once has one reading at most under  *)
(* way, of what it was last asked.                                         *)
OneQuestion ==
    /\ DOMAIN asked = Panels /\ DOMAIN shown = Panels /\ "snapshots" \notin muddled
    /\ \A x \in Panels \ muddled :
          /\ \A c \in Readings(x) : c.q = asked[x]
          /\ \A c, d \in Readings(x) : c = d
          /\ Readings(x) = {} /\ x \notin failed => shown[x] = asked[x]

(* A list that is not out of date either shows what there is, or is being  *)
(* read, or is about to be.                                                *)
Changed(fns) == \E c \in calls : c.fn \in fns /\ c.at = "done"

SnapshotsFollow ==
    "snapshots" \notin unsure =>
        \/ Changed({"create_snapshot", "delete_snapshot"})
        \/ \E c \in Readings("snapshots") : c.at # "answer" \/ c.found = existing
        \/ Readings("snapshots") = {} /\ listed = existing

FilesFollow ==
    "files" \notin unsure \cup muddled =>
        \/ Changed({"sftp_create_directory", "sftp_delete"})
        \/ \E c \in Readings("files") : c.at # "answer" \/ c.found = entries[c.q]
        \/ Readings("files") = {} /\ files = entries[shown["files"]]

ConsoleInv == CallsInPlace /\ OneQuestion /\ SnapshotsFollow /\ FilesFollow

----------------------------------------------------------------------------
LEMMA OnePanel ==
    \A c : c.fn \in Functions =>
        /\ Panel(c) = "snapshots" <=> c.fn \in SnapshotCalls
        /\ Panel(c) = "files" <=> c.fn \in FileCalls
        /\ c.fn \in Reads => Panel(c) \in Panels
        /\ Panel(c) \in Panels \cup {"power"}
<1> SUFFICES ASSUME NEW c, c.fn \in Functions
             PROVE  /\ Panel(c) = "snapshots" <=> c.fn \in SnapshotCalls
                    /\ Panel(c) = "files" <=> c.fn \in FileCalls
                    /\ c.fn \in Reads => Panel(c) \in Panels
                    /\ Panel(c) \in Panels \cup {"power"}
  OBVIOUS
<1>1. CASE c.fn \in SnapshotCalls
  <2>1. Panel(c) = "snapshots"
    BY <1>1 DEF Panel, SnapshotCalls, FileCalls, PowerOps
  <2> QED
    BY <1>1, <2>1 DEF SnapshotCalls, FileCalls, Panels
<1>2. CASE c.fn \in FileCalls
  <2>1. Panel(c) = "files"
    BY <1>2 DEF Panel, SnapshotCalls, FileCalls, PowerOps
  <2> QED
    BY <1>2, <2>1 DEF SnapshotCalls, FileCalls, Panels
<1>3. CASE c.fn \in PowerOps
  <2>1. Panel(c) = "power"
    BY <1>3 DEF Panel, SnapshotCalls, FileCalls, PowerOps
  <2> QED
    BY <1>3, <2>1 DEF SnapshotCalls, FileCalls, Panels, PowerOps, Reads, RestReads
<1>4. CASE c.fn \in RestReads \cup {"get_boot_disk_name"}
  <2>1. Panel(c) \in {"serial", "audit", "diagnostics", "search", "disk"}
    BY <1>4 DEF Panel, RestReads, SnapshotCalls, FileCalls, PowerOps
  <2> QED
    BY <1>4, <2>1 DEF SnapshotCalls, FileCalls, Panels, RestReads
<1> QED
  BY <1>1, <1>2, <1>3, <1>4 DEF Functions

LEMMA SamePanel == \A c, d : c.fn = d.fn => Panel(c) = Panel(d)
BY DEF Panel

(* The functions that answer a list's panel, and the lists'.               *)
LEMMA ListsReads ==
    /\ \A fn \in SnapshotCalls \cap Reads : fn = "list_snapshots"
    /\ \A fn \in FileCalls \cap Reads : fn = "sftp_list_directory"
    /\ "list_snapshots" \in SnapshotCalls \cap Reads \cap Functions
    /\ "sftp_list_directory" \in FileCalls \cap Reads \cap Functions
    /\ {"create_snapshot", "delete_snapshot", "create_disk_from_snapshot"}
          \subseteq (SnapshotCalls \cap Functions) \ Reads
    /\ {"sftp_create_directory", "sftp_delete"} \subseteq (FileCalls \cap Functions) \ Reads
    /\ PowerOps \subseteq Functions \ (Reads \cup SnapshotCalls \cup FileCalls)
    /\ RestReads \cup {"get_boot_disk_name"} \subseteq (Reads \cap Functions) \ (SnapshotCalls \cup FileCalls)
    /\ SnapshotCalls \cap FileCalls = {} /\ "snapshots" \in Panels /\ "files" \in Panels
BY DEF Functions, SnapshotCalls, FileCalls, PowerOps, RestReads, Reads, Panels

LEMMA GoesOn ==
    ASSUME NEW c, IsCall(c), NEW at, NEW found
    PROVE  /\ IsCall([c EXCEPT !.at = at, !.found = found])
           /\ [c EXCEPT !.at = at, !.found = found].at = at
           /\ [c EXCEPT !.at = at, !.found = found].found = found
           /\ [c EXCEPT !.at = at, !.found = found].fn = c.fn
           /\ [c EXCEPT !.at = at, !.found = found].q = c.q
BY DEF IsCall

(* What a command does to the calls is nothing to the panels' questions.   *)
LEMMA SameQuestions ==
    ASSUME OneQuestion, UNCHANGED <<asked, shown, failed, muddled>>,
           \A x \in Panels : Readings(x)' = Readings(x)
    PROVE  OneQuestion'
BY DEF OneQuestion

LEMMA CommandEnds ==
    ASSUME ConsoleInv, NEW c \in calls, c.fn \notin Reads, Ends(c),
           UNCHANGED <<asked, shown, listed, files, failed, existing, entries, muddled>>,
           unsure \subseteq unsure',
           c.at = "done" => /\ c.fn \in {"create_snapshot", "delete_snapshot"} => "snapshots" \in unsure'
                            /\ c.fn \in {"sftp_create_directory", "sftp_delete"} => "files" \in unsure'
    PROVE  ConsoleInv'
<1>1. \A x \in Panels : Readings(x)' = Readings(x)
  BY DEF Readings, Of, Ends
<1>2. CallsInPlace' /\ OneQuestion'
  BY <1>1, SameQuestions DEF ConsoleInv, CallsInPlace, Ends
<1>3. SnapshotsFollow'
  BY <1>1, ListsReads DEF ConsoleInv, SnapshotsFollow, Changed, Ends
<1>4. FilesFollow'
  BY <1>1, ListsReads DEF ConsoleInv, FilesFollow, Changed, Ends
<1> QED
  BY <1>2, <1>3, <1>4 DEF ConsoleInv

LEMMA CommandLands ==
    ASSUME ConsoleInv, NEW c \in calls, c.fn \notin Reads, c.at \in {"sent", "given up"}, Lands(c),
           UNCHANGED existing \/ c.fn \in {"create_snapshot", "delete_snapshot"},
           UNCHANGED entries \/ c.fn \in {"sftp_create_directory", "sftp_delete"}
    PROVE  ConsoleInv'
<1> DEFINE d == [c EXCEPT !.at = "done", !.found = {}]
<1> USE DEF panelVars, ghostVars
<1>1. UNCHANGED <<asked, shown, listed, files, failed, muddled, unsure>>
      /\ calls' \in {calls \ {c}, (calls \ {c}) \cup {d}}
      /\ (c.at = "sent" => calls' = (calls \ {c}) \cup {d})
  BY DEF Lands, Goes, Ends
<1>0. IsCall(c)
  BY DEF ConsoleInv, CallsInPlace
<1>2. d.at = "done" /\ IsCall(d) /\ d.fn = c.fn
  BY <1>0 DEF IsCall
<1>3. c.at = "given up" => c.fn \in SnapshotCalls /\ "snapshots" \in unsure
  BY DEF ConsoleInv, CallsInPlace
<1> HIDE DEF d
<1>4. \A x \in Panels : Readings(x)' = Readings(x)
  BY <1>1, <1>2 DEF Readings, Of
<1>5. CallsInPlace' /\ OneQuestion'
  BY <1>1, <1>2, <1>4, SameQuestions DEF ConsoleInv, CallsInPlace
<1>6. SnapshotsFollow'
  BY <1>1, <1>2, <1>3, <1>4, ListsReads DEF ConsoleInv, SnapshotsFollow, Changed
<1>7. FilesFollow'
  <2>1. CASE c.fn \in {"sftp_create_directory", "sftp_delete"}
    BY <1>1, <1>2, <1>3, <2>1, ListsReads DEF FilesFollow, Changed
  <2>2. CASE UNCHANGED entries
    BY <1>1, <1>2, <1>4, <2>2, ListsReads DEF ConsoleInv, FilesFollow, Changed
  <2> QED
    BY <2>1, <2>2
<1> QED
  BY <1>5, <1>6, <1>7 DEF ConsoleInv

LEMMA CommandSent ==
    ASSUME ConsoleInv, NEW by, NEW fn \in Functions \ Reads, NEW at, NEW q, Command(fn, at, q),
           at = "sent" \/ (at = "disk" /\ fn = "create_snapshot")
    PROVE  ConsoleInv'
<1> DEFINE c == Call(presses', fn, at, q)
<1> USE DEF panelVars, ghostVars, outsideVars
<1>1. UNCHANGED <<asked, shown, listed, files, failed, muddled, unsure, existing, entries>>
      /\ calls' = calls \cup {c}
  BY DEF Command
<1>2. IsCall(c) /\ c.fn = fn /\ c.at = at
  BY DEF Call, IsCall
<1> HIDE DEF c
<1>3. \A x \in Panels : Readings(x)' = Readings(x)
  BY <1>1, <1>2 DEF Readings, Of
<1>4. CallsInPlace' /\ OneQuestion'
  BY <1>1, <1>2, <1>3, SameQuestions DEF ConsoleInv, CallsInPlace
<1>5. SnapshotsFollow' /\ FilesFollow'
  BY <1>1, <1>3, ListsReads DEF ConsoleInv, SnapshotsFollow, FilesFollow, Changed
<1> QED
  BY <1>4, <1>5 DEF ConsoleInv

(* A call that goes on answers the question it answered.                   *)
LEMMA QuestionGoesOn ==
    ASSUME ConsoleInv, NEW c \in calls, NEW d, IsCall(d), d.fn = c.fn, d.q = c.q,
           calls' = (calls \ {c}) \cup {d}, UNCHANGED <<asked, shown, failed, muddled>>
    PROVE  /\ \A x : c \notin Readings(x) => Readings(x)' = Readings(x)
           /\ \A x : c \in Readings(x) => Readings(x)' = (Readings(x) \ {c}) \cup {d}
           /\ OneQuestion'
<1>1. Panel(d) = Panel(c)
  BY SamePanel
<1>2. \A x : c \notin Readings(x) => Readings(x)' = Readings(x)
  BY <1>1 DEF Readings, Of
<1>3. \A x : c \in Readings(x) => Readings(x)' = (Readings(x) \ {c}) \cup {d}
  BY <1>1 DEF Readings, Of
<1>4. OneQuestion'
  BY <1>2, <1>3 DEF ConsoleInv, OneQuestion
<1> QED
  BY <1>2, <1>3, <1>4

LEMMA CallMoves ==
    ASSUME ConsoleInv, NEW c \in calls, NEW at, Goes(c, at, {}), c.at \in {"sent", "disk"},
           UNCHANGED <<asked, shown, listed, files, failed, existing, entries, muddled>>,
           unsure \subseteq unsure',
           \/ at = "agent" /\ c.fn = "get_vm_diagnostics"
           \/ at = "sent"
           \/ at = "given up" /\ c.fn \in SnapshotCalls \ Reads /\ "snapshots" \in unsure'
    PROVE  ConsoleInv'
<1> DEFINE d == [c EXCEPT !.at = at, !.found = {}]
<1>0. IsCall(c)
  BY DEF ConsoleInv, CallsInPlace
<1>1. d.at = at /\ IsCall(d) /\ d.fn = c.fn /\ d.q = c.q
  BY <1>0 DEF IsCall
<1>2. calls' = (calls \ {c}) \cup {d}
  BY DEF Goes
<1> HIDE DEF d
<1>3. /\ \A x : c \notin Readings(x) => Readings(x)' = Readings(x)
      /\ \A x : c \in Readings(x) => Readings(x)' = (Readings(x) \ {c}) \cup {d}
      /\ OneQuestion'
  BY <1>1, <1>2, QuestionGoesOn
<1>4. CallsInPlace'
  BY <1>1, <1>2 DEF ConsoleInv, CallsInPlace
<1>5. SnapshotsFollow'
  <2>1. Changed({"create_snapshot", "delete_snapshot"})
          => Changed({"create_snapshot", "delete_snapshot"})'
    BY <1>2 DEF Changed
  <2>2. (\E e \in Readings("snapshots") : e.at # "answer" \/ e.found = existing)
          => \E e \in Readings("snapshots")' : e.at # "answer" \/ e.found = existing
    <3>1. CASE c \in Readings("snapshots")
      BY <1>1, <1>3, <3>1
    <3>2. CASE c \notin Readings("snapshots")
      BY <1>3, <3>2
    <3> QED
      BY <3>1, <3>2
  <2>3. Readings("snapshots") = {} => Readings("snapshots")' = {}
    BY <1>3
  <2> QED
    BY <2>1, <2>2, <2>3 DEF ConsoleInv, SnapshotsFollow
<1>6. FilesFollow'
  <2>1. Changed({"sftp_create_directory", "sftp_delete"})
          => Changed({"sftp_create_directory", "sftp_delete"})'
    BY <1>2 DEF Changed
  <2>2. (\E e \in Readings("files") : e.at # "answer" \/ e.found = entries[e.q])
          => \E e \in Readings("files")' : e.at # "answer" \/ e.found = entries[e.q]
    <3>1. CASE c \in Readings("files")
      BY <1>1, <1>3, <3>1
    <3>2. CASE c \notin Readings("files")
      BY <1>3, <3>2
    <3> QED
      BY <3>1, <3>2
  <2>3. Readings("files") = {} => Readings("files")' = {}
    BY <1>3
  <2> QED
    BY <2>1, <2>2, <2>3 DEF ConsoleInv, FilesFollow
<1> QED
  BY <1>3, <1>4, <1>5, <1>6 DEF ConsoleInv

LEMMA ListIsRead ==
    ASSUME ConsoleInv, NEW c \in calls, NEW found, c.at = "sent", IsRead(c, found),
           \/ c.fn = "list_snapshots" /\ found = existing
           \/ c.fn = "sftp_list_directory" /\ found = entries[c.q]
    PROVE  ConsoleInv'
<1> DEFINE d == [c EXCEPT !.at = "answer", !.found = found]
<1> USE DEF panelVars, outsideVars
<1>0. IsCall(c)
  BY DEF ConsoleInv, CallsInPlace
<1>1. d.at = "answer" /\ IsCall(d) /\ d.fn = c.fn /\ d.q = c.q /\ d.found = found
  BY <1>0 DEF IsCall
<1>2. /\ calls' = (calls \ {c}) \cup {d}
      /\ UNCHANGED <<asked, shown, listed, files, failed, existing, entries, muddled>>
      /\ unsure' = IF Of(Panel(c)) \subseteq Readings(Panel(c)) THEN unsure \ {Panel(c)} ELSE unsure
  BY DEF IsRead, Goes
<1> HIDE DEF d
<1>3. /\ \A x : c \notin Readings(x) => Readings(x)' = Readings(x)
      /\ \A x : c \in Readings(x) => Readings(x)' = (Readings(x) \ {c}) \cup {d}
      /\ OneQuestion'
  BY <1>1, <1>2, QuestionGoesOn
<1>4. CallsInPlace'
  <2>1. \A e \in calls : e.at = "given up" => "snapshots" \in unsure'
    <3> SUFFICES ASSUME NEW e \in calls, e.at = "given up" PROVE "snapshots" \in unsure'
      OBVIOUS
    <3>1. e.fn \in SnapshotCalls \ Reads /\ "snapshots" \in unsure /\ e.fn \in Functions
      BY DEF ConsoleInv, CallsInPlace, IsCall
    <3>2. Panel(e) = "snapshots"
      BY <3>1, OnePanel
    <3>3. Panel(c) = "snapshots" => ~(Of(Panel(c)) \subseteq Readings(Panel(c)))
      BY <3>1, <3>2 DEF Of, Readings
    <3> QED
      BY <1>2, <3>1, <3>3
  <2> QED
    BY <1>1, <1>2, <2>1, ListsReads DEF ConsoleInv, CallsInPlace
<1>5. CASE c.fn = "list_snapshots" /\ found = existing
  <2>1. Panel(c) = "snapshots" /\ c \in Readings("snapshots") /\ c \notin Readings("files")
    BY <1>0, <1>5, OnePanel, ListsReads DEF Readings, Of
  <2>2. SnapshotsFollow'
    BY <1>1, <1>2, <1>3, <1>5, <2>1 DEF SnapshotsFollow
  <2>3. FilesFollow'
    BY <1>1, <1>2, <1>3, <1>5, <2>1 DEF ConsoleInv, FilesFollow, Changed
  <2> QED
    BY <1>3, <1>4, <2>2, <2>3 DEF ConsoleInv
<1>6. CASE c.fn = "sftp_list_directory" /\ found = entries[c.q]
  <2>1. Panel(c) = "files" /\ c \in Readings("files") /\ c \notin Readings("snapshots")
    BY <1>0, <1>6, OnePanel, ListsReads DEF Readings, Of
  <2>2. FilesFollow'
    BY <1>1, <1>2, <1>3, <1>6, <2>1 DEF FilesFollow
  <2>3. SnapshotsFollow'
    BY <1>1, <1>2, <1>3, <1>6, <2>1 DEF ConsoleInv, SnapshotsFollow, Changed
  <2> QED
    BY <1>3, <1>4, <2>2, <2>3 DEF ConsoleInv
<1> QED
  BY <1>5, <1>6

(* A list nobody could read makes the panel unsure, and nothing else.      *)
LEMMA ListIsNone ==
    ASSUME ConsoleInv, NEW c \in calls, c.at = "sent", c.fn = "list_snapshots", ReadsNone(c)
    PROVE  ConsoleInv'
<1> DEFINE d == [c EXCEPT !.at = "answer", !.found = {}]
<1> USE DEF panelVars, outsideVars
<1>0. IsCall(c)
  BY DEF ConsoleInv, CallsInPlace
<1>1. d.at = "answer" /\ IsCall(d) /\ d.fn = c.fn /\ d.q = c.q
  BY <1>0 DEF IsCall
<1>2. /\ calls' = (calls \ {c}) \cup {d}
      /\ UNCHANGED <<asked, shown, listed, files, failed, existing, entries, muddled>>
      /\ unsure' = unsure \cup {"snapshots"}
  BY DEF ReadsNone, Goes
<1> HIDE DEF d
<1>3. /\ \A x : c \notin Readings(x) => Readings(x)' = Readings(x)
      /\ OneQuestion'
  BY <1>1, <1>2, QuestionGoesOn
<1>4. CallsInPlace'
  BY <1>1, <1>2, ListsReads DEF ConsoleInv, CallsInPlace
<1>5. c \notin Readings("files")
  BY <1>0, OnePanel, ListsReads DEF Readings, Of
<1>6. FilesFollow'
  BY <1>1, <1>2, <1>3, <1>5 DEF ConsoleInv, FilesFollow, Changed
<1> QED
  BY <1>2, <1>3, <1>4, <1>6 DEF ConsoleInv, SnapshotsFollow

(* A question that is over leaves the others as they are.                  *)
LEMMA QuestionEnds ==
    ASSUME ConsoleInv, NEW c \in calls, c.fn \in Reads, Ends(c)
    PROVE  /\ Panel(c) \in Panels /\ c \in Readings(Panel(c))
           /\ \A x : x # Panel(c) => Readings(x)' = Readings(x)
           /\ Readings(Panel(c))' = Readings(Panel(c)) \ {c}
           /\ Panel(c) \notin muddled => Readings(Panel(c))' = {} /\ c.q = asked[Panel(c)]
<1>1. Panel(c) \in Panels /\ c \in Readings(Panel(c))
  BY OnePanel DEF ConsoleInv, CallsInPlace, IsCall, Readings, Of
<1>2. /\ \A x : x # Panel(c) => Readings(x)' = Readings(x)
      /\ Readings(Panel(c))' = Readings(Panel(c)) \ {c}
  BY DEF Ends, Readings, Of
<1>3. Panel(c) \notin muddled => Readings(Panel(c))' = {} /\ c.q = asked[Panel(c)]
  BY <1>1, <1>2 DEF ConsoleInv, OneQuestion
<1> QED
  BY <1>1, <1>2, <1>3

LEMMA ReadFails ==
    ASSUME ConsoleInv, NEW c \in calls, c.fn \in Reads, Fails(c)
    PROVE  ConsoleInv'
<1> USE DEF panelVars, outsideVars
<1>1. /\ Ends(c) /\ failed' = failed \cup {Panel(c)} /\ unsure' = unsure \cup {Panel(c)}
      /\ UNCHANGED <<asked, shown, listed, files, existing, entries, muddled>>
  BY DEF Fails
<1>2. CallsInPlace'
  BY <1>1 DEF ConsoleInv, CallsInPlace, Ends
<1>3. OneQuestion'
  <2>1. \A x \in Panels \ muddled : x # Panel(c) => Readings(x)' = Readings(x)
    BY <1>1, QuestionEnds
  <2>2. Panel(c) \notin muddled => Readings(Panel(c))' = {}
    BY <1>1, QuestionEnds
  <2> QED
    BY <1>1, <2>1, <2>2 DEF ConsoleInv, OneQuestion
<1>4. SnapshotsFollow' /\ FilesFollow'
  <2>1. \A x : x # Panel(c) => Readings(x)' = Readings(x)
    BY <1>1, QuestionEnds
  <2>2. \A fns : Changed(fns) /\ fns \cap Reads = {} => Changed(fns)'
    BY <1>1 DEF Changed, Ends
  <2> QED
    BY <1>1, <2>1, <2>2, ListsReads DEF ConsoleInv, SnapshotsFollow, FilesFollow
<1> QED
  BY <1>2, <1>3, <1>4 DEF ConsoleInv

(* An answer that is no list.                                              *)
LEMMA ReadAnswered ==
    ASSUME ConsoleInv, NEW c \in calls, c.fn \in RestReads \cup {"get_boot_disk_name"}, Answered(c)
    PROVE  ConsoleInv'
<1> USE DEF panelVars, outsideVars, ghostVars
<1>1. /\ Ends(c) /\ shown' = [shown EXCEPT ![Panel(c)] = c.q]
      /\ UNCHANGED <<asked, listed, files, failed, existing, entries, muddled, unsure>>
  BY DEF Answered
<1>2. c.fn \in Reads /\ c.fn \in Functions /\ c.fn \notin SnapshotCalls \cup FileCalls
  BY ListsReads
<1>3. Panel(c) \notin {"snapshots", "files"}
  BY <1>2, OnePanel
<1>4. CallsInPlace'
  BY <1>1 DEF ConsoleInv, CallsInPlace, Ends
<1>5. OneQuestion'
  <2>1. /\ Panel(c) \in Panels
        /\ \A x \in Panels : x # Panel(c) => Readings(x)' = Readings(x) /\ shown'[x] = shown[x]
    BY <1>1, <1>2, QuestionEnds DEF ConsoleInv, OneQuestion
  <2>2. Panel(c) \notin muddled => Readings(Panel(c))' = {} /\ shown'[Panel(c)] = asked[Panel(c)]
    BY <1>1, <1>2, QuestionEnds DEF ConsoleInv, OneQuestion
  <2> QED
    BY <1>1, <2>1, <2>2 DEF ConsoleInv, OneQuestion
<1>6. SnapshotsFollow' /\ FilesFollow'
  <2>1. Readings("snapshots")' = Readings("snapshots") /\ Readings("files")' = Readings("files")
    BY <1>1, <1>2, <1>3, QuestionEnds
  <2>2. \A fns : Changed(fns) /\ fns \cap Reads = {} => Changed(fns)'
    BY <1>1, <1>2 DEF Changed, Ends
  <2>3. shown'["files"] = shown["files"]
    BY <1>1, <1>3, ListsReads DEF ConsoleInv, OneQuestion
  <2> QED
    BY <1>1, <2>1, <2>2, <2>3, ListsReads DEF ConsoleInv, SnapshotsFollow, FilesFollow
<1> QED
  BY <1>4, <1>5, <1>6 DEF ConsoleInv

LEMMA ListIsShown ==
    ASSUME ConsoleInv, NEW c \in calls, ShowsList(c)
    PROVE  ConsoleInv'
<1> USE DEF panelVars, outsideVars, ghostVars
<1>1. /\ Ends(c) /\ shown' = [shown EXCEPT ![Panel(c)] = c.q] /\ c.at = "answer"
      /\ failed' = failed \ {Panel(c)}
      /\ UNCHANGED <<asked, existing, entries, muddled, unsure>>
      /\ IF c.fn = "list_snapshots" THEN listed' = c.found /\ UNCHANGED files
                                    ELSE files' = c.found /\ UNCHANGED listed
  BY DEF ShowsList
<1>2. c.fn \in {"list_snapshots", "sftp_list_directory"} /\ c.fn \in Functions
  BY <1>1 DEF ConsoleInv, CallsInPlace, IsCall
<1>3. c.fn \in Reads /\ Panel(c) = (IF c.fn = "list_snapshots" THEN "snapshots" ELSE "files")
  BY <1>2, OnePanel, ListsReads
<1>4. CallsInPlace'
  BY <1>1 DEF ConsoleInv, CallsInPlace, Ends
<1>5. /\ Panel(c) \in Panels /\ c \in Readings(Panel(c))
      /\ \A x : x # Panel(c) => Readings(x)' = Readings(x)
      /\ \A x \in Panels : x # Panel(c) => shown'[x] = shown[x]
      /\ shown'[Panel(c)] = c.q
      /\ Readings(Panel(c))' = Readings(Panel(c)) \ {c}
      /\ Panel(c) \notin muddled => Readings(Panel(c))' = {} /\ c.q = asked[Panel(c)]
  BY <1>1, <1>3, QuestionEnds DEF ConsoleInv, OneQuestion
<1>6. OneQuestion'
  BY <1>1, <1>5 DEF ConsoleInv, OneQuestion
<1>7. \A fns : Changed(fns) => Changed(fns)'
  BY <1>1 DEF Changed, Ends
<1>8. Panel(c) \notin muddled => \A e \in Readings(Panel(c)) : e = c
  BY <1>5 DEF ConsoleInv, OneQuestion
<1>9. CASE c.fn = "list_snapshots"
  <2>1. Panel(c) = "snapshots" /\ "snapshots" \notin muddled
    BY <1>3, <1>9 DEF ConsoleInv, OneQuestion
  <2>2. SnapshotsFollow'
    <3>1. Readings("snapshots")' = {} /\ \A e \in Readings("snapshots") : e = c
      BY <1>5, <1>8, <2>1
    <3> QED
      BY <1>1, <1>5, <1>7, <1>9, <2>1, <3>1 DEF ConsoleInv, SnapshotsFollow
  <2>3. FilesFollow'
    <3>1. Readings("files")' = Readings("files") /\ shown'["files"] = shown["files"]
      BY <1>5, <2>1, ListsReads
    <3> QED
      BY <1>1, <1>7, <1>9, <3>1 DEF ConsoleInv, FilesFollow
  <2> QED
    BY <1>4, <1>6, <2>2, <2>3 DEF ConsoleInv
<1>10. CASE c.fn = "sftp_list_directory"
  <2>1. Panel(c) = "files"
    BY <1>3, <1>10
  <2>2. FilesFollow'
    <3>1. "files" \notin muddled => /\ Readings("files")' = {}
                                    /\ \A e \in Readings("files") : e = c
      BY <1>5, <1>8, <2>1
    <3>2. files' = c.found /\ shown'["files"] = c.q /\ UNCHANGED <<entries, muddled, unsure>>
      BY <1>1, <1>5, <1>10, <2>1
    <3> QED
      BY <1>1, <1>5, <1>7, <2>1, <3>1, <3>2 DEF ConsoleInv, FilesFollow
  <2>3. SnapshotsFollow'
    <3>1. Readings("snapshots")' = Readings("snapshots")
      BY <1>5, <2>1
    <3> QED
      BY <1>1, <1>7, <1>10, <3>1 DEF ConsoleInv, SnapshotsFollow
  <2> QED
    BY <1>4, <1>6, <2>2, <2>3 DEF ConsoleInv
<1> QED
  BY <1>2, <1>9, <1>10

(* A question, in the place of the command d that calls for it.            *)
LEMMA QuestionPut ==
    ASSUME ConsoleInv, NEW c, NEW d, Asks(c, d), IsCall(c), c.fn \in Reads,
           c.at = "sent" \/ (c.at = "disk" /\ c.fn = "list_snapshots"),
           d = c \/ (d \in calls /\ d.fn \notin Reads /\ Panel(d) = Panel(c))
    PROVE  ConsoleInv'
<1> USE DEF outsideVars
<1> DEFINE over == Superseded(c.fn)
<1>1. /\ calls' = (calls \ ({d} \cup over)) \cup {c}
      /\ asked' = [asked EXCEPT ![Panel(c)] = c.q] /\ failed' = failed \ {Panel(c)}
      /\ muddled' = IF Readings(Panel(c)) \subseteq over THEN muddled \ {Panel(c)}
                                                         ELSE muddled \cup {Panel(c)}
      /\ UNCHANGED <<shown, listed, files, existing, entries, unsure>>
  BY DEF Asks
<1>2. /\ c.fn = "list_snapshots" => over = Readings("snapshots")
      /\ c.fn # "list_snapshots" => over = {}
  <2>1. ASSUME NEW e \in calls PROVE e.fn = "list_snapshots" <=> e \in Readings("snapshots")
    BY OnePanel, ListsReads DEF ConsoleInv, CallsInPlace, IsCall, Readings, Of
  <2>2. Readings("snapshots") \subseteq calls
    BY DEF Readings, Of
  <2> QED
    BY <2>1, <2>2 DEF Superseded
<1>3. /\ c.fn \in Functions /\ Panel(c) \in Panels
      /\ Panel(c) = "snapshots" <=> c.fn = "list_snapshots"
  BY OnePanel, ListsReads DEF IsCall
<1> HIDE DEF over
<1>4. \A x : x # Panel(c) => Readings(x)' = Readings(x)
  <2>1. \A x : x # Panel(c) => over \cap Readings(x) = {} /\ d \notin Readings(x)
    BY <1>2, <1>3 DEF Readings, Of
  <2> QED
    BY <1>1, <2>1 DEF Readings, Of
<1>5. /\ c \in Readings(Panel(c))'
      /\ Panel(c) \notin muddled' => Readings(Panel(c))' = {c}
  <2>1. c \in Readings(Panel(c))'
    BY <1>1 DEF Readings, Of
  <2>2. Panel(c) \notin muddled' => Readings(Panel(c)) \subseteq over
    BY <1>1
  <2> QED
    BY <1>1, <2>1, <2>2 DEF Readings, Of
<1>6. CallsInPlace'
  BY <1>1, ListsReads DEF ConsoleInv, CallsInPlace
<1>7. OneQuestion'
  <2>1. \A x \in Panels : x # Panel(c) => asked'[x] = asked[x] /\ (x \in muddled <=> x \in muddled')
    BY <1>1 DEF ConsoleInv, OneQuestion
  <2>2. asked'[Panel(c)] = c.q /\ DOMAIN asked' = Panels
    BY <1>1, <1>3 DEF ConsoleInv, OneQuestion
  <2>3. "snapshots" \notin muddled'
    BY <1>1, <1>2, <1>3 DEF ConsoleInv, OneQuestion
  <2> QED
    BY <1>1, <1>4, <1>5, <2>1, <2>2, <2>3 DEF ConsoleInv, OneQuestion
<1>8. \A fns : fns \cap Reads = {} /\ Changed(fns) /\ d.fn \notin fns => Changed(fns)'
  <2>1. \A e \in over : e.fn \in Reads
    BY <1>2 DEF Readings
  <2> QED
    BY <1>1, <2>1 DEF Changed
<1>9. d.fn \in Functions /\ Panel(d) = Panel(c)
  BY <1>3 DEF ConsoleInv, CallsInPlace, IsCall
<1>10. SnapshotsFollow'
  <2>1. CASE Panel(c) = "snapshots"
    BY <1>3, <1>5, <2>1 DEF SnapshotsFollow
  <2>2. CASE Panel(c) # "snapshots"
    <3>1. d.fn \notin {"create_snapshot", "delete_snapshot"}
      BY <1>9, <2>2, OnePanel, ListsReads
    <3> QED
      BY <1>1, <1>4, <1>8, <2>2, <3>1, ListsReads DEF ConsoleInv, SnapshotsFollow
  <2> QED
    BY <2>1, <2>2
<1>11. FilesFollow'
  <2>1. CASE Panel(c) = "files"
    BY <1>3, <1>5, <2>1 DEF FilesFollow
  <2>2. CASE Panel(c) # "files"
    <3>1. d.fn \notin {"sftp_create_directory", "sftp_delete"}
      BY <1>9, <2>2, OnePanel, ListsReads
    <3> QED
      BY <1>1, <1>4, <1>8, <2>2, <3>1, ListsReads DEF ConsoleInv, FilesFollow
  <2> QED
    BY <2>1, <2>2
<1> QED
  BY <1>6, <1>7, <1>10, <1>11 DEF ConsoleInv

LEMMA ConsoleAtStart == ConsoleInit => ConsoleInv
<1> SUFFICES ASSUME ConsoleInit PROVE ConsoleInv
  OBVIOUS
<1>1. CallsInPlace /\ SnapshotsFollow /\ FilesFollow
  BY DEF ConsoleInit, CallsInPlace, SnapshotsFollow, FilesFollow
<1>2. OneQuestion
  BY DEF ConsoleInit, OneQuestion, Readings, Of
<1> QED
  BY <1>1, <1>2 DEF ConsoleInv

LEMMA ConsolePresses == ConsoleInv /\ Presses => ConsoleInv'
<1> SUFFICES ASSUME ConsoleInv, Presses PROVE ConsoleInv'
  OBVIOUS
<1>1. ASSUME NEW fn \in Reads, NEW at, NEW q, Question(fn, at, q),
             at = "sent" \/ (at = "disk" /\ fn = "list_snapshots")
      PROVE  ConsoleInv'
  <2> DEFINE c == Call(presses', fn, at, q)
  <2>1. fn \in Functions
    BY DEF Reads, Functions, SnapshotCalls, FileCalls
  <2>2. IsCall(c) /\ c.fn = fn /\ c.at = at /\ Asks(c, c)
    BY <1>1, <2>1 DEF Question, Call, IsCall
  <2> HIDE DEF c
  <2> QED
    BY <1>1, <2>2, QuestionPut
<1>2. ASSUME NEW fn \in Functions \ Reads, NEW q, Command(fn, "sent", q) PROVE ConsoleInv'
  BY <1>2, CommandSent
<1>3. (\E port \in Ports : _fetchSerialOutput(port)) \/ _autoRefreshTimer \/ (\E h \in Hours : _fetchLogs(h))
         \/ (\E i \in Instances : _searchInstance(i)) \/ _fetchDiagnostics \/ _loadBootDisk
      => ConsoleInv'
  BY <1>1 DEF _fetchSerialOutput, _autoRefreshTimer, SerialQuestion, _fetchLogs, _searchInstance,
     _fetchDiagnostics, _loadBootDisk, Reads, RestReads
<1>4. ListSnapshots \/ (\E x \in Dirs : _loadDirectory(x)) => ConsoleInv'
  BY <1>1 DEF ListSnapshots, _loadDirectory, Reads
<1>5. ASSUME NEW s \in Snapshots, _submit(s) PROVE ConsoleInv'
  BY <1>5, CommandSent, ListsReads DEF _submit
<1>6. ASSUME NEW s \in Snapshots \cup Namesakes, _confirmDelete(s) \/ _confirmRestore(s) PROVE ConsoleInv'
  BY <1>2, <1>6, ListsReads DEF _confirmDelete, _confirmRestore
<1>7. ASSUME NEW n \in Names \cup Climbing, createDirectory(n) \/ deleteEntry(n) PROVE ConsoleInv'
  BY <1>2, <1>7, ListsReads DEF createDirectory, deleteEntry
<1>8. ASSUME NEW op \in PowerOps, Power(op) PROVE ConsoleInv'
  BY <1>2, <1>8, ListsReads DEF Power
<1> QED
  BY <1>3, <1>4, <1>5, <1>6, <1>7, <1>8 DEF Presses

(* How the commands go on: they are carried out, refused, given up, or     *)
(* their answer is lost.                                                   *)
LEMMA CommandGoesOn ==
    ASSUME ConsoleInv, NEW c \in calls, c.fn \notin Reads,
           Refused(c) \/ AnswerLost(c) \/ (c.fn \in SnapshotCalls /\ TimesOut(c))
    PROVE  ConsoleInv'
<1> USE DEF panelVars, outsideVars, ghostVars
<1>0. c.fn \in Functions
  BY DEF ConsoleInv, CallsInPlace, IsCall
<1>1. CASE Refused(c)
  BY <1>1, CommandEnds DEF Refused
<1>2. CASE AnswerLost(c)
  <2>1. /\ c.fn \in SnapshotCalls => "snapshots" \in unsure'
        /\ c.fn \in FileCalls => "files" \in unsure'
    BY <1>0, <1>2, OnePanel, ListsReads DEF AnswerLost
  <2>2. /\ Ends(c) /\ unsure \subseteq unsure'
        /\ UNCHANGED <<asked, shown, listed, files, failed, existing, entries, muddled>>
    BY <1>2 DEF AnswerLost
  <2> QED
    BY <2>1, <2>2, CommandEnds, ListsReads
<1>3. CASE c.fn \in SnapshotCalls /\ TimesOut(c)
  BY <1>3, CallMoves DEF TimesOut
<1> QED
  BY <1>1, <1>2, <1>3

LEMMA ConsoleGoesOn ==
    ASSUME ConsoleInv, NEW c \in calls, CallStep(c)
    PROVE  ConsoleInv'
<1> USE DEF panelVars, outsideVars, ghostVars
<1>0. c.fn \in Functions /\ IsCall(c)
  BY DEF ConsoleInv, CallsInPlace, IsCall
<1>1. ASSUME NEW fn \in RestReads \cup {"get_boot_disk_name"}, OneRequest(c, fn) PROVE ConsoleInv'
  BY <1>1, ReadAnswered, ReadFails, ListsReads DEF OneRequest
<1>2. CASE get_serial_port_output(c) \/ get_audit_logs(c) \/ get_instance(c)
  BY <1>1, <1>2 DEF get_serial_port_output, get_audit_logs, get_instance, RestReads
<1>3. CASE get_vm_diagnostics(c)
  <2>1. c.fn \in Reads
    BY <1>3 DEF get_vm_diagnostics, Reads, RestReads
  <2> QED
    BY <1>3, <2>1, CallMoves, ReadFails DEF get_vm_diagnostics
<1>4. CASE get_guest_agent_status(c)
  <2>1. c.fn = "get_vm_diagnostics"
    BY <1>4 DEF get_guest_agent_status, ConsoleInv, CallsInPlace
  <2> QED
    BY <1>4, <2>1, ReadAnswered DEF get_guest_agent_status, RestReads
<1>5. CASE power_operation(c)
  <2>1. c.fn \notin Reads
    BY <1>5, ListsReads DEF power_operation
  <2> QED
    BY <1>5, <2>1, CommandLands, CommandGoesOn DEF power_operation
<1>6. CASE get_boot_disk_name(c)
  <2>1. CASE OneRequest(c, "get_boot_disk_name")
    BY <1>1, <2>1
  <2>2. CASE c.at = "disk" /\ Goes(c, "sent", {}) /\ UNCHANGED <<panelVars, outsideVars, ghostVars>>
    BY <2>2, CallMoves
  <2>3. CASE c.at = "disk" /\ c.fn = "list_snapshots" /\ Fails(c)
    BY <2>3, ReadFails, ListsReads
  <2>4. CASE c.at = "disk" /\ c.fn = "create_snapshot" /\ Ends(c)
             /\ UNCHANGED <<panelVars, outsideVars, ghostVars>>
    BY <2>4, CommandEnds, ListsReads
  <2> QED
    BY <1>6, <2>1, <2>2, <2>3, <2>4 DEF get_boot_disk_name
<1>7. CASE list_snapshots(c)
  BY <1>7, ListIsRead, ListIsNone, ReadFails, ListsReads DEF list_snapshots
<1>8. CASE create_snapshot(c) \/ delete_snapshot(c) \/ create_disk_from_snapshot(c)
  <2>1. c.fn \in SnapshotCalls \ Reads
    BY <1>8, ListsReads DEF create_snapshot, delete_snapshot, create_disk_from_snapshot
  <2>2. \/ Refused(c) \/ TimesOut(c) \/ AnswerLost(c)
        \/ /\ c.at \in {"sent", "given up"} /\ Lands(c) /\ UNCHANGED entries
           /\ UNCHANGED existing \/ c.fn \in {"create_snapshot", "delete_snapshot"}
    BY <1>8 DEF create_snapshot, delete_snapshot, create_disk_from_snapshot
  <2> QED
    BY <2>1, <2>2, CommandGoesOn, CommandLands
<1>9. CASE sftp_list_directory(c)
  BY <1>9, ListIsRead, ReadFails, ListsReads DEF sftp_list_directory
<1>10. CASE sftp_create_directory(c) \/ sftp_delete(c)
  <2>1. c.fn \in {"sftp_create_directory", "sftp_delete"} /\ c.fn \notin Reads
    BY <1>10, ListsReads DEF sftp_create_directory, sftp_delete
  <2>2. \/ Refused(c) \/ AnswerLost(c)
        \/ c.at \in {"sent", "given up"} /\ Lands(c) /\ UNCHANGED existing
    BY <1>10 DEF sftp_create_directory, sftp_delete
  <2> QED
    BY <2>1, <2>2, CommandGoesOn, CommandLands
<1>11. CASE ShowsList(c)
  BY <1>11, ListIsShown
<1>12. CASE Succeeds(c)
  <2>0. c.at = "done" /\ c.fn \notin Reads
    BY <1>12 DEF Succeeds, ConsoleInv, CallsInPlace
  <2>1. ASSUME c.fn \in {"create_snapshot", "delete_snapshot"},
               Asks(Call(c.by, "list_snapshots", "disk", TheVm), c)
        PROVE  ConsoleInv'
    <3> DEFINE e == Call(c.by, "list_snapshots", "disk", TheVm)
    <3>1. IsCall(e) /\ e.fn = "list_snapshots" /\ e.at = "disk"
      BY ListsReads DEF Call, IsCall
    <3>2. Asks(e, c)
      BY <2>1
    <3> HIDE DEF e
    <3>3. Panel(e) = "snapshots" /\ Panel(c) = "snapshots"
      BY <1>0, <2>1, <3>1, OnePanel, ListsReads
    <3> QED
      BY <2>0, <3>1, <3>2, <3>3, QuestionPut, ListsReads
  <2>2. ASSUME c.fn \in FileCalls, Asks(Call(c.by, "sftp_list_directory", "sent", currentPath), c)
        PROVE  ConsoleInv'
    <3> DEFINE e == Call(c.by, "sftp_list_directory", "sent", currentPath)
    <3>1. IsCall(e) /\ e.fn = "sftp_list_directory" /\ e.at = "sent"
      BY ListsReads DEF Call, IsCall
    <3>2. Asks(e, c)
      BY <2>2
    <3> HIDE DEF e
    <3>3. Panel(e) = "files" /\ Panel(c) = "files"
      BY <1>0, <2>2, <3>1, OnePanel, ListsReads
    <3> QED
      BY <2>0, <3>1, <3>2, <3>3, QuestionPut, ListsReads
  <2>3. ASSUME c.fn \in PowerOps \cup {"create_disk_from_snapshot"}, Ends(c),
               UNCHANGED <<panelVars, outsideVars, ghostVars>>
        PROVE  ConsoleInv'
    <3>1. c.fn \notin {"create_snapshot", "delete_snapshot", "sftp_create_directory", "sftp_delete"}
      BY <2>3 DEF PowerOps
    <3> QED
      BY <2>0, <2>3, <3>1, CommandEnds
  <2> QED
    BY <1>12, <2>1, <2>2, <2>3 DEF Succeeds
<1> QED
  BY <1>2, <1>3, <1>4, <1>5, <1>6, <1>7, <1>8, <1>9, <1>10, <1>11, <1>12 DEF CallStep

(* Whatever is asked in whatever order, and whatever fails or is given up, *)
(* for every panel that ShowsWhatWasAsked does not except: not asked twice *)
(* at once, and its list not left in doubt.                                *)
THEOREM PanelsShowWhatWasAsked == ConsoleSpec => []ShowsWhatWasAsked
<1>1. ConsoleInv /\ UNCHANGED consoleVars => ConsoleInv'
  <2> SUFFICES ASSUME ConsoleInv, UNCHANGED consoleVars PROVE ConsoleInv'
    OBVIOUS
  <2>1. UNCHANGED <<asked, shown, listed, files, failed, existing, entries, muddled, unsure, calls>>
    BY DEF consoleVars, panelVars, outsideVars, ghostVars
  <2>2. CallsInPlace'
    BY <2>1 DEF ConsoleInv, CallsInPlace
  <2>3. \A x : Readings(x)' = Readings(x)
    BY <2>1 DEF Readings, Of
  <2>4. OneQuestion'
    BY <2>1, <2>3 DEF ConsoleInv, OneQuestion
  <2>5. SnapshotsFollow' /\ FilesFollow'
    BY <2>1, <2>3 DEF ConsoleInv, SnapshotsFollow, FilesFollow, Changed
  <2> QED
    BY <2>2, <2>4, <2>5 DEF ConsoleInv
<1>2. ConsoleInv /\ [ConsoleNext]_consoleVars => ConsoleInv'
  BY <1>1, ConsolePresses, ConsoleGoesOn DEF ConsoleNext, CallsGoOn
<1>3. ConsoleInv => ShowsWhatWasAsked
  <2> SUFFICES ASSUME ConsoleInv PROVE ShowsWhatWasAsked
    OBVIOUS
  <2>1. ASSUME Of("snapshots") = {} PROVE "snapshots" \notin unsure => listed = existing
    <3>1. Readings("snapshots") = {} /\ ~Changed({"create_snapshot", "delete_snapshot"})
      BY <2>1, OnePanel, ListsReads DEF Readings, Of, Changed
    <3> QED
      BY <3>1 DEF ConsoleInv, SnapshotsFollow
  <2>2. ASSUME Of("files") = {}
        PROVE  "files" \notin muddled \cup unsure => files = entries[shown["files"]]
    <3>1. Readings("files") = {} /\ ~Changed({"sftp_create_directory", "sftp_delete"})
      BY <2>2, OnePanel, ListsReads DEF Readings, Of, Changed
    <3> QED
      BY <3>1 DEF ConsoleInv, FilesFollow
  <2>3. \A x \in Panels \ (muddled \cup failed) : Readings(x) = {} => shown[x] = asked[x]
    BY DEF ConsoleInv, OneQuestion
  <2> QED
    BY <2>1, <2>2, <2>3 DEF ShowsWhatWasAsked
<1> QED
  BY <1>2, <1>3, ConsoleAtStart, PTL DEF ConsoleSpec
================================================================================
