------------------------- MODULE InstanceAccessProofs -------------------------
(***************************************************************************)
(* Theorems about InstanceAccess, for any tabs, windows, resets and keys.  *)
(*                                                                         *)
(* Four facts make its properties inductive: a tab that runs is its        *)
(* window's flight (Flies); what an operation that is done means for the *)
(* tab that waits for it (Landing); what an accepted write does to the     *)
(* items it was based on (Body); and how many changes of the metadata a  *)
(* tab has seen by its first and its second attempt (Counting).            *)
(***************************************************************************)
EXTENDS InstanceAccess, TLAPS

TabRecs ==
    [pc : TabPcs, user : Users, key : Keys \cup {None}, fresh : Keys \cup {None},
     attempt : 0..2, read : Metas, late : BOOLEAN, landed : BOOLEAN, moved : 0..2,
     answer : {"none", "granted", "refused", "conflict", "failed"}]
ResetRecs ==
    [pc : {"idle", "read", "write", "poll", "store"}, read : Metas, late : BOOLEAN,
     from : Nat, answer : {"none", "ok", "failed"}]
OpRecs == [status : {"none", "pending", "done", "error"}, on : Metas, body : Metas]

CloudOK == /\ meta \in Metas /\ foreign \in 0..MaxForeign /\ op \in [Writers -> OpRecs]
           /\ account \in [profile : BOOLEAN, keys : SUBSET Keys]
VmOK    == /\ guest \in {"linux", "windows"} /\ osLogin \in BOOLEAN
           /\ authorised \subseteq Users \X Keys
           /\ serial \in [lines : Seq(Moduli), open : BOOLEAN]
           /\ serial.open => serial.lines # <<>>
           /\ handled \in Moduli \cup {None}
TabsOK  == /\ keyFile \in Keys \cup {None} /\ consent \in {"unset", "yes", "no"}
           /\ window \in [Tabs -> Windows] /\ flight \in [Windows -> Tabs \cup {None}]
           /\ tab \in [Tabs -> TabRecs]
WinOK   == reset \in [Resets -> ResetRecs] /\ stored \in Moduli \cup {None}

\* The four parts together are more than the type invariant: a line that is
\* not finished is a line.
LEMMA TypeParts == CloudOK /\ VmOK /\ TabsOK /\ WinOK => TypeOK
  BY DEF TypeOK, CloudOK, VmOK, TabsOK, WinOK, TabRecs, ResetRecs, OpRecs

Running(t) == tab[t].pc \notin {"idle", "joined"}

\* A tab that runs is the flight of its window.
Flies(t) == Running(t) => flight[window[t]] = t

\* Publishing to OS Login and to the metadata are two ways; the operation of a
\* tab that waits for it is done only if it landed.
Landing(t) ==
    /\ At(t, "publish") => osLogin
    /\ At(t, "operation") /\ op[t].status = "done" => tab[t].landed
    /\ At(t, "session") => osLogin \/ tab[t].landed

\* The second attempt comes after one change, and fails only after another.
Early(t) == tab[t].pc \in {"idle", "joined", "probe", "key", "consent", "asking", "provision"}
Counting(t) ==
    /\ Early(t) => tab[t].attempt = 0
    /\ At(t, "read") => tab[t].attempt < 2 /\ tab[t].moved >= tab[t].attempt
    /\ At(t, "write") => /\ tab[t].attempt > 0 /\ tab[t].moved >= tab[t].attempt - 1
                         /\ tab[t].read # meta => tab[t].moved >= tab[t].attempt

\* What is published is a key, by a call that has no answer yet.
Keyed(t) ==
    /\ tab[t].pc \in {"publish", "read", "write"} => tab[t].key \in Keys
    /\ Running(t) => tab[t].answer = "none"

TabInv(t) == Flies(t) /\ Landing(t) /\ Counting(t) /\ Keyed(t)

\* What a write that is still under way does to what it read.
Body(w) ==
    op[w].status = "pending" =>
        /\ op[w].on.keys \subseteq op[w].body.keys
        /\ op[w].body.startup = op[w].on.startup
        /\ op[w].body.request \in {op[w].on.request} \cup Resets

IInv ==
    /\ CloudOK /\ VmOK /\ TabsOK /\ WinOK
    /\ \A t \in Tabs : TabInv(t)
    /\ \A w \in Writers : Body(w)

-----------------------------------------------------------------------------
\* The sets the actions take their values from.
LEMMA Membership ==
  /\ Blank \in Metas /\ NoOp \in OpRecs /\ None \notin Tabs
  /\ Tabs \subseteq Writers /\ Resets \subseteq Writers /\ Resets \subseteq Moduli
  /\ Theirs \in Moduli /\ Tabs \cap Resets = {}
  BY AccessAssumption DEF Blank, Metas, NoOp, OpRecs, Writers, Moduli

\* A tab that has ended a call, or begins one, is a tab.
LEMMA FreshType ==
  ASSUME NEW a \in {"none", "granted", "refused", "conflict", "failed"}
  PROVE  /\ Fresh(a) \in TabRecs
         /\ Fresh(a).pc = "idle" /\ Fresh(a).attempt = 0 /\ Fresh(a).answer = a
  BY Membership DEF Fresh, TabRecs, TabPcs, Users

\* A part whose variables an action leaves alone stays: the metadata server.
LEMMA CloudFrame == ASSUME CloudOK, UNCHANGED cloud PROVE CloudOK'
  BY DEF CloudOK, cloud

\* The same, of the VM.
LEMMA VmFrame == ASSUME VmOK, UNCHANGED vm PROVE VmOK'
  BY DEF VmOK, vm

\* The same, of the tabs.
LEMMA TabsFrame == ASSUME TabsOK, UNCHANGED ssh PROVE TabsOK'
  BY DEF TabsOK, ssh

\* The same, of the resets.
LEMMA WinFrame == ASSUME WinOK, UNCHANGED win PROVE WinOK'
  BY DEF WinOK, win

\* A flight that ends leaves every tab as it was, or idle with the answer.
LEMMA AnswerEffect ==
  ASSUME TabsOK, NEW t \in Tabs,
         NEW a \in {"none", "granted", "refused", "conflict", "failed"}, Answer(t, a)
  PROVE  /\ tab' \in [Tabs -> TabRecs]
         /\ flight' \in [Windows -> Tabs \cup {None}]
         /\ tab'[t] = Fresh(a)
         /\ \A u \in Tabs : tab'[u] = tab[u] \/ tab'[u] = Fresh(a)
         /\ \A w \in Windows : flight'[w] = flight[w] \/ flight[w] = t
         /\ \A u \in Tabs : tab'[u] # tab[u] => u = t \/ At(u, "joined")
<1>1. Fresh(a) \in TabRecs
  BY FreshType
<1>2. /\ tab' \in [Tabs -> TabRecs] /\ tab'[t] = Fresh(a)
      /\ \A u \in Tabs : tab'[u] = tab[u] \/ tab'[u] = Fresh(a)
      /\ \A u \in Tabs : tab'[u] # tab[u] => u = t \/ At(u, "joined")
  BY <1>1 DEF TabsOK, Answer
<1>3. /\ flight' \in [Windows -> Tabs \cup {None}]
      /\ \A w \in Windows : flight'[w] = flight[w] \/ flight[w] = t
  BY DEF TabsOK, Answer
<1> QED  BY <1>2, <1>3

\* A tab that only goes on to pc.
LEMMA GotoEffect ==
  ASSUME TabsOK, NEW t \in Tabs, NEW pc \in TabPcs, Goto(t, pc)
  PROVE  /\ tab' \in [Tabs -> TabRecs] /\ flight' = flight
         /\ tab'[t] = [tab[t] EXCEPT !.pc = pc]
         /\ \A u \in Tabs : u # t => tab'[u] = tab[u]
<1> DEFINE r == [tab[t] EXCEPT !.pc = pc]
<1>1. tab[t] \in TabRecs /\ tab \in [Tabs -> TabRecs]
  BY DEF TabsOK
<1>2. r \in TabRecs
  BY <1>1 DEF TabRecs
<1>3. tab' = [tab EXCEPT ![t] = r] /\ flight' = flight
  BY DEF Goto
<1> HIDE DEF r
<1>4. /\ tab' \in [Tabs -> TabRecs] /\ tab'[t] = r
      /\ \A u \in Tabs : u # t => tab'[u] = tab[u]
  BY <1>1, <1>2, <1>3
<1> QED  BY <1>3, <1>4 DEF r

\* Looking for the key, or making it, leaves the rest of the call alone.
LEMMA KeyEffect ==
  ASSUME TabsOK, NEW t \in Tabs, NEW next \in TabPcs, LoadKey(t, next)
  PROVE  /\ tab' \in [Tabs -> TabRecs] /\ flight' = flight /\ keyFile' \in Keys \cup {None}
         /\ \A u \in Tabs : u # t => tab'[u] = tab[u]
         /\ tab'[t].pc \in {tab[t].pc, next}
         /\ tab'[t].pc # tab[t].pc => tab'[t].key \in Keys
         /\ tab'[t].attempt = tab[t].attempt /\ tab'[t].moved = tab[t].moved
         /\ tab'[t].landed = tab[t].landed /\ tab'[t].read = tab[t].read
         /\ tab'[t].answer = tab[t].answer
<1> USE DEF TabsOK
<1>1. CASE tab[t].fresh = None /\ keyFile # None
  BY <1>1 DEF LoadKey, TabRecs
<1>2. CASE tab[t].fresh = None /\ keyFile = None
  <2>1. PICK k \in Keys : tab' = [tab EXCEPT ![t].fresh = k]
    BY <1>2 DEF LoadKey
  <2> QED  BY <1>2, <2>1 DEF LoadKey, TabRecs
<1>3. CASE tab[t].fresh # None
  <2>1. /\ tab' = [tab EXCEPT ![t].key = tab[t].fresh, ![t].fresh = None, ![t].pc = next]
        /\ keyFile' = tab[t].fresh /\ tab[t].fresh \in Keys /\ flight' = flight
    BY <1>3 DEF LoadKey, TabRecs
  <2> DEFINE r == [tab[t] EXCEPT !.key = tab[t].fresh, !.fresh = None, !.pc = next]
  <2>2. r \in TabRecs
    BY <2>1 DEF TabRecs
  <2>3. tab' = [tab EXCEPT ![t] = r]
    BY <2>1
  <2>4. /\ r.pc = next /\ r.key = tab[t].fresh /\ r.attempt = tab[t].attempt /\ r.moved = tab[t].moved
        /\ r.landed = tab[t].landed /\ r.read = tab[t].read
        /\ r.answer = tab[t].answer
    BY DEF TabRecs
  <2> HIDE DEF r
  <2> QED  BY <2>1, <2>2, <2>3, <2>4
<1> QED  BY <1>1, <1>2, <1>3

\* A change of the metadata counts for the tabs, and changes nothing else.
LEMMA NoticedEffect ==
  ASSUME TabsOK, NEW w, tab' = Noticed(w)
  PROVE  /\ tab' \in [Tabs -> TabRecs]
         /\ \A u \in Tabs :
              /\ tab'[u].pc = tab[u].pc /\ tab'[u].attempt = tab[u].attempt
              /\ tab'[u].read = tab[u].read /\ tab'[u].answer = tab[u].answer
              /\ tab'[u].key = tab[u].key
              /\ tab'[u].landed = (tab[u].landed \/ u = w)
              /\ tab'[u].moved \in 0..2 /\ tab'[u].moved >= tab[u].moved
              /\ tab[u].attempt > 0 /\ tab[u].pc \in {"read", "write"} /\ tab[u].moved < 2
                    => tab'[u].moved = tab[u].moved + 1
<1> DEFINE waits(u) == tab[u].attempt > 0 /\ tab[u].pc \in {"read", "write"}
           next(u) == [tab[u] EXCEPT !.landed = @ \/ u = w,
                                     !.moved  = IF waits(u) /\ @ < 2 THEN @ + 1 ELSE @]
<1>1. tab' = [u \in Tabs |-> next(u)]
  BY DEF Noticed
<1>2. ASSUME NEW u \in Tabs
      PROVE  /\ next(u) \in TabRecs
             /\ next(u).pc = tab[u].pc /\ next(u).attempt = tab[u].attempt
             /\ next(u).read = tab[u].read /\ next(u).answer = tab[u].answer
             /\ next(u).key = tab[u].key
             /\ next(u).landed = (tab[u].landed \/ u = w)
             /\ next(u).moved \in 0..2 /\ next(u).moved >= tab[u].moved
             /\ waits(u) /\ tab[u].moved < 2 => next(u).moved = tab[u].moved + 1
  <2>1. tab[u] \in TabRecs /\ tab[u].moved \in 0..2 /\ tab[u].landed \in BOOLEAN
    BY DEF TabsOK, TabRecs
  <2>2. (IF waits(u) /\ tab[u].moved < 2 THEN tab[u].moved + 1 ELSE tab[u].moved) \in 0..2
    BY <2>1
  <2>3. (tab[u].landed \/ u = w) \in BOOLEAN
    OBVIOUS
  <2> DEFINE m == IF waits(u) /\ tab[u].moved < 2 THEN tab[u].moved + 1 ELSE tab[u].moved
             l == tab[u].landed \/ u = w
  <2>4. next(u) = [tab[u] EXCEPT !.landed = l, !.moved = m]
    BY <2>1 DEF TabRecs
  <2>5. m \in 0..2 /\ m >= tab[u].moved
        /\ (waits(u) /\ tab[u].moved < 2 => m = tab[u].moved + 1)
    BY <2>1
  <2>6. l \in BOOLEAN /\ l = (tab[u].landed \/ u = w)
    OBVIOUS
  <2> HIDE DEF next, waits, m, l
  <2> QED  BY <2>1, <2>4, <2>5, <2>6 DEF TabRecs
<1> HIDE DEF next, waits
<1>3. \A u \in Tabs : tab'[u] = next(u)
  BY <1>1
<1>4. tab' \in [Tabs -> TabRecs]
  BY <1>1, <1>2
<1> QED  BY <1>2, <1>3, <1>4 DEF waits

\* An accepted write is the operation of its writer.
LEMMA AcceptedEffect ==
  ASSUME CloudOK, NEW w \in Writers, NEW read \in Metas, NEW body \in Metas,
         Accepted(w, read, body)
  PROVE  /\ op' \in [Writers -> OpRecs]
         /\ op'[w].status = "pending" /\ op'[w].on = read /\ op'[w].body = body
         /\ \A v \in Writers : v # w => op'[v] = op[v]
  BY DEF CloudOK, Accepted, Sent, OpRecs

\* Publishing a key only adds it.
LEMMA MergedEffect ==
  ASSUME NEW read \in Metas, NEW k \in Keys
  PROVE  /\ Merged(read, k) \in Metas /\ read.keys \subseteq Merged(read, k).keys
         /\ Merged(read, k).startup = read.startup /\ Merged(read, k).request = read.request
  BY DEF Merged, Metas

-----------------------------------------------------------------------------
(* The steps of a tab: what they leave to the others.                       *)

\* A tab that another's step leaves alone, or whose call has ended.
Kept(u) ==
    \/ /\ tab'[u].pc = "idle" /\ tab'[u].attempt = 0
    \/ /\ tab'[u].pc = tab[u].pc /\ tab'[u].attempt = tab[u].attempt
       /\ tab'[u].read = tab[u].read /\ tab'[u].landed = tab[u].landed
       /\ tab'[u].moved = tab[u].moved /\ tab'[u].key = tab[u].key
       /\ tab'[u].answer = tab[u].answer

\* Where the metadata and the VM's login stay as they are, a tab that is left
\* alone keeps its invariant.
LEMMA KeptKeeps ==
  ASSUME TabsOK, NEW u \in Tabs, TabInv(u), Kept(u),
         UNCHANGED <<meta, osLogin, window>>,
         op'[u].status = "done" => op[u].status = "done",
         Running(u) => flight'[window[u]] = flight[window[u]]
  PROVE  TabInv(u)'
<1>1. CASE tab'[u].pc = "idle" /\ tab'[u].attempt = 0
  BY <1>1 DEF TabInv, Flies, Landing, Counting, Keyed, Running, Early, At
<1>2. CASE ~(tab'[u].pc = "idle" /\ tab'[u].attempt = 0)
  BY <1>2 DEF Kept, TabInv, Flies, Landing, Counting, Keyed, Running, Early, At
<1> QED  BY <1>1, <1>2

\* A step of tab t that keeps t's own invariant keeps the others'.
LEMMA OthersKept ==
  ASSUME TabsOK, \A u \in Tabs : TabInv(u), NEW t \in Tabs,
         UNCHANGED <<meta, osLogin, window>>,
         \A u \in Tabs : u # t => Kept(u) /\ op'[u] = op[u],
         \A w \in Windows : flight'[w] = flight[w] \/ flight[w] \in {t, None},
         TabInv(t)'
  PROVE  \A u \in Tabs : TabInv(u)'
<1>1. ASSUME NEW u \in Tabs, u # t
      PROVE  TabInv(u)'
  <2>1. Running(u) => flight[window[u]] = u /\ u # None
    BY Membership DEF TabInv, Flies
  <2>2. Running(u) => flight'[window[u]] = flight[window[u]]
    BY <1>1, <2>1 DEF TabsOK
  <2>3. TabInv(u) /\ Kept(u) /\ op'[u] = op[u]
    BY <1>1
  <2> QED  BY <2>2, <2>3, KeptKeeps
<1> QED  BY <1>1

\* A call that ends keeps every tab's invariant.
LEMMA AnswerKeeps ==
  ASSUME TabsOK, \A u \in Tabs : TabInv(u), NEW t \in Tabs,
         NEW a \in {"none", "granted", "refused", "conflict", "failed"}, Answer(t, a),
         UNCHANGED <<meta, osLogin, window>>,
         \A u \in Tabs : u # t => op'[u] = op[u]
  PROVE  /\ tab' \in [Tabs -> TabRecs] /\ flight' \in [Windows -> Tabs \cup {None}]
         /\ \A u \in Tabs : TabInv(u)'
<1>1. \A u \in Tabs : u # t => Kept(u)
  BY AnswerEffect, FreshType DEF Kept
<1>2. TabInv(t)'
  BY AnswerEffect, FreshType DEF TabInv, Flies, Landing, Counting, Keyed, Running, Early, At
<1>3. \A w \in Windows : flight'[w] = flight[w] \/ flight[w] \in {t, None}
  BY AnswerEffect
<1> QED  BY <1>1, <1>2, <1>3, AnswerEffect, OthersKept

\* A tab that goes on keeps every tab's invariant if it keeps its own.
LEMMA GoesOnKeeps ==
  ASSUME TabsOK, \A u \in Tabs : TabInv(u), NEW t \in Tabs,
         UNCHANGED <<meta, osLogin, window, flight>>,
         \A u \in Tabs : u # t => tab'[u] = tab[u] /\ op'[u] = op[u],
         Running(t),
         Landing(t)', Counting(t)', Keyed(t)'
  PROVE  \A u \in Tabs : TabInv(u)'
<1>1. \A u \in Tabs : u # t => Kept(u)
  BY DEF Kept
<1>2. TabInv(t)'
  BY DEF TabInv, Flies, Running
<1> QED  BY <1>1, <1>2, OthersKept

-----------------------------------------------------------------------------
(* Every action keeps the invariant.                                        *)

\* The parts of the invariant, one by one.
LEMMA Parts ==
  IInv <=> /\ CloudOK /\ VmOK /\ TabsOK /\ WinOK
           /\ \A t \in Tabs : TabInv(t)
           /\ \A w \in Writers : Body(w)
  BY DEF IInv

\* The same, after a step.
LEMMA PartsNext ==
  ASSUME CloudOK', VmOK', TabsOK', WinOK',
         \A t \in Tabs : TabInv(t)', \A w \in Writers : Body(w)'
  PROVE  IInv'
  BY DEF IInv

\* A step of a tab that sends nothing.
LEMMA TabStep ==
  ASSUME IInv, UNCHANGED <<cloud, vm, window, win>>,
         keyFile' \in Keys \cup {None}, consent' \in {"unset", "yes", "no"},
         tab' \in [Tabs -> TabRecs], flight' \in [Windows -> Tabs \cup {None}],
         \A t \in Tabs : TabInv(t)'
  PROVE  IInv'
<1>1. CloudOK' /\ VmOK' /\ WinOK'
  BY Parts, CloudFrame, VmFrame, WinFrame
<1>2. TabsOK'
  BY Parts DEF TabsOK
<1>3. ASSUME NEW w \in Writers PROVE Body(w)'
  BY Parts DEF Body, cloud
<1> QED  BY <1>1, <1>2, <1>3, PartsNext

\* A call that ends, having sent nothing.
LEMMA AnswerStep ==
  ASSUME IInv, NEW t \in Tabs,
         NEW a \in {"none", "granted", "refused", "conflict", "failed"}, Answer(t, a),
         UNCHANGED <<cloud, vm, keyFile, window, win>>, consent' \in {"unset", "yes", "no"}
  PROVE  IInv'
<1>1. /\ TabsOK /\ (\A u \in Tabs : TabInv(u)) /\ keyFile' \in Keys \cup {None}
      /\ UNCHANGED <<meta, osLogin, op>>
  BY Parts DEF TabsOK, cloud, vm
<1>2. /\ tab' \in [Tabs -> TabRecs] /\ flight' \in [Windows -> Tabs \cup {None}]
      /\ \A u \in Tabs : TabInv(u)'
  BY <1>1, AnswerKeeps
<1> QED  BY <1>1, <1>2, TabStep

\* A call that goes on to pc, where its invariant asks for nothing.
LEMMA GotoStep ==
  ASSUME IInv, NEW t \in Tabs, NEW pc \in {"key", "asking", "provision"}, Goto(t, pc),
         tab[t].pc \in {"probe", "consent", "asking"},
         UNCHANGED <<cloud, vm, keyFile, window, win>>, consent' \in {"unset", "yes", "no"}
  PROVE  IInv'
<1>0. pc \in TabPcs
  BY DEF TabPcs
<1>1. /\ TabsOK /\ (\A u \in Tabs : TabInv(u)) /\ keyFile' \in Keys \cup {None}
      /\ UNCHANGED <<meta, osLogin, op>>
  BY Parts DEF TabsOK, cloud, vm
<1>2. /\ tab' \in [Tabs -> TabRecs] /\ flight' = flight /\ tab'[t] = [tab[t] EXCEPT !.pc = pc]
      /\ \A u \in Tabs : u # t => tab'[u] = tab[u]
  BY <1>0, <1>1, GotoEffect
<1>3. /\ tab'[t].pc = pc /\ tab'[t].attempt = tab[t].attempt
      /\ tab'[t].answer = tab[t].answer
  BY <1>1, <1>2 DEF TabsOK, TabRecs
<1>4. Running(t) /\ tab[t].attempt = 0 /\ tab[t].answer = "none"
  BY <1>1 DEF TabInv, Counting, Keyed, Early, Running
<1>5. Landing(t)' /\ Counting(t)' /\ Keyed(t)'
  BY <1>3, <1>4 DEF Landing, Counting, Keyed, Running, Early, At
<1>6. \A u \in Tabs : TabInv(u)'
  BY <1>1, <1>2, <1>4, <1>5, GoesOnKeeps
<1>7. flight' \in [Windows -> Tabs \cup {None}]
  BY <1>1, <1>2 DEF TabsOK
<1> QED  BY <1>1, <1>2, <1>6, <1>7, TabStep

\* A call that looks for the key, or makes it, and may go on to next.
LEMMA KeyStep ==
  ASSUME IInv, NEW t \in Tabs, NEW next \in TabPcs, LoadKey(t, next),
         tab[t].pc \in {"key", "provision"},
         next \in {"consent", "publish", "read"}, next = "publish" => osLogin,
         UNCHANGED <<cloud, vm, consent, window, win>>
  PROVE  IInv'
<1>1. /\ TabsOK /\ (\A u \in Tabs : TabInv(u)) /\ consent' \in {"unset", "yes", "no"}
      /\ UNCHANGED <<meta, osLogin, op>> /\ tab[t].moved \in 0..2
  BY Parts DEF TabsOK, cloud, vm, TabRecs
<1>2. /\ tab' \in [Tabs -> TabRecs] /\ flight' = flight /\ keyFile' \in Keys \cup {None}
      /\ \A u \in Tabs : u # t => tab'[u] = tab[u]
      /\ tab'[t].pc \in {tab[t].pc, next}
      /\ tab'[t].pc # tab[t].pc => tab'[t].key \in Keys
      /\ tab'[t].attempt = tab[t].attempt /\ tab'[t].moved = tab[t].moved
      /\ tab'[t].answer = tab[t].answer
  BY <1>1, KeyEffect
<1>4. Running(t) /\ tab[t].attempt = 0 /\ tab[t].answer = "none"
  BY <1>1 DEF TabInv, Counting, Keyed, Early, Running
<1>5. Landing(t)' /\ Counting(t)' /\ Keyed(t)'
  BY <1>1, <1>2, <1>4 DEF Landing, Counting, Keyed, Running, Early, At
<1>6. \A u \in Tabs : TabInv(u)'
  BY <1>1, <1>2, <1>4, <1>5, GoesOnKeeps
<1>7. flight' \in [Windows -> Tabs \cup {None}]
  BY <1>1, <1>2 DEF TabsOK
<1> QED  BY <1>1, <1>2, <1>6, <1>7, TabStep

\* ensureSshAccess begins: it joins its window's flight, or becomes it.
LEMMA EnsureStep == ASSUME IInv, NEW t \in Tabs, Ensure(t) PROVE IInv'
<1> DEFINE next == IF Joins(t) THEN "joined" ELSE "probe"
           r == [Fresh("none") EXCEPT !.pc = next]
<1>1. /\ TabsOK /\ (\A u \in Tabs : TabInv(u)) /\ UNCHANGED <<meta, osLogin, op, keyFile, consent>>
      /\ UNCHANGED <<cloud, vm, window, win>>
  BY Parts DEF Ensure, cloud, vm
<1>2. /\ tab' = [tab EXCEPT ![t] = r] /\ At(t, "idle")
      /\ flight' = IF Joins(t) THEN flight ELSE [flight EXCEPT ![window[t]] = t]
  BY DEF Ensure
<1>3. r \in TabRecs /\ r.pc = next /\ r.attempt = 0 /\ r.answer = "none"
      /\ next \in {"joined", "probe"}
  BY FreshType DEF TabRecs, TabPcs, Fresh
<1> HIDE DEF r, next
<1>4. /\ tab' \in [Tabs -> TabRecs] /\ tab'[t] = r
      /\ \A u \in Tabs : u # t => tab'[u] = tab[u]
  BY <1>1, <1>2, <1>3 DEF TabsOK
<1>5. /\ flight' \in [Windows -> Tabs \cup {None}]
      /\ \A w \in Windows : flight'[w] = flight[w] \/ flight[w] \in {t, None}
      /\ next = "probe" => flight'[window[t]] = t
  BY <1>1, <1>2 DEF TabsOK, Joins, next
<1>6. TabInv(t)'
  BY <1>1, <1>3, <1>4, <1>5 DEF TabInv, Flies, Landing, Counting, Keyed, Running, Early, At
<1>7. \A u \in Tabs : u # t => Kept(u) /\ op'[u] = op[u]
  BY <1>1, <1>4 DEF Kept
<1>8. \A u \in Tabs : TabInv(u)'
  BY <1>1, <1>5, <1>6, <1>7, OthersKept
<1>9. keyFile' \in Keys \cup {None} /\ consent' \in {"unset", "yes", "no"}
  BY <1>1 DEF TabsOK
<1> QED  BY <1>1, <1>4, <1>5, <1>8, <1>9, TabStep

\* The real login at the start of a call.
LEMMA ProbeStep == ASSUME IInv, NEW t \in Tabs, Probe(t) PROVE IInv'
<1>1. UNCHANGED <<cloud, vm, keyFile, consent, window, win>> /\ tab[t].pc = "probe"
  BY DEF Probe, At
<1>2. consent' \in {"unset", "yes", "no"}
  BY <1>1, Parts DEF TabsOK
<1>3. Answer(t, "granted") \/ Goto(t, "key")
  BY DEF Probe
<1> QED  BY <1>1, <1>2, <1>3, AnswerStep, GotoStep

\* The user's consent, remembered or asked for.
LEMMA ConsentStep == ASSUME IInv, NEW t \in Tabs, Consent(t) \/ UserAnswers(t) PROVE IInv'
<1>1. /\ UNCHANGED <<cloud, vm, keyFile, window, win>> /\ tab[t].pc \in {"consent", "asking"}
      /\ consent' \in {consent, "yes", "no"}
  BY DEF Consent, UserAnswers, At
<1>2. consent' \in {"unset", "yes", "no"}
  BY <1>1, Parts DEF TabsOK
<1>3. \/ Answer(t, "refused") \/ Answer(t, "failed")
      \/ Goto(t, "provision") \/ Goto(t, "asking")
  BY DEF Consent, UserAnswers
<1> QED  BY <1>1, <1>2, <1>3, AnswerStep, GotoStep

\* The key, at the probe and again before it is published.
LEMMA ProbeKeyStep == ASSUME IInv, NEW t \in Tabs, ProbeKey(t) \/ Provision(t) PROVE IInv'
<1> DEFINE next == IF At(t, "key") THEN "consent" ELSE IF osLogin THEN "publish" ELSE "read"
<1>1. /\ UNCHANGED <<cloud, vm, consent, window, win>> /\ tab[t].pc \in {"key", "provision"}
      /\ LoadKey(t, next)
  BY DEF ProbeKey, Provision, At
<1>2. next \in TabPcs /\ next \in {"consent", "publish", "read"} /\ (next = "publish" => osLogin)
  BY DEF TabPcs
<1> HIDE DEF next
<1> QED  BY <1>1, <1>2, KeyStep

\* The import into the OS Login account, whose answer names the user.
LEMMA PublishStep == ASSUME IInv, NEW t \in Tabs, PublishToOsLogin(t) PROVE IInv'
<1>1. /\ TabsOK /\ CloudOK /\ VmOK /\ WinOK /\ (\A u \in Tabs : TabInv(u))
      /\ UNCHANGED <<meta, op, foreign, osLogin, keyFile, consent, flight, window>>
      /\ UNCHANGED <<vm, win>>
  BY Parts DEF PublishToOsLogin, vm
<1>2. PICK user \in ResolvedUsers \cup {"posix"} :
        tab' = [tab EXCEPT ![t].user = user, ![t].pc = "session"]
  BY DEF PublishToOsLogin
<1> DEFINE r == [tab[t] EXCEPT !.user = user, !.pc = "session"]
<1>3. user \in Users
  BY DEF ResolvedUsers, Users
<1>4. r \in TabRecs /\ r.pc = "session" /\ r.answer = tab[t].answer
  BY <1>1, <1>3 DEF TabsOK, TabRecs, TabPcs
<1>5. tab' = [tab EXCEPT ![t] = r]
  BY <1>2
<1> HIDE DEF r
<1>6. /\ tab' \in [Tabs -> TabRecs] /\ tab'[t] = r
      /\ \A u \in Tabs : u # t => tab'[u] = tab[u]
  BY <1>1, <1>4, <1>5 DEF TabsOK
<1>7. Running(t) /\ osLogin /\ At(t, "publish") /\ tab[t].answer = "none"
  BY <1>1 DEF TabInv, Landing, Keyed, Running, At, PublishToOsLogin
<1>8. Landing(t)' /\ Counting(t)' /\ Keyed(t)'
  BY <1>1, <1>4, <1>6, <1>7 DEF Landing, Counting, Keyed, Running, Early, At
<1>9. \A u \in Tabs : TabInv(u)'
  BY <1>1, <1>6, <1>7, <1>8, GoesOnKeeps
<1>10. CloudOK'
  BY <1>1, <1>7 DEF CloudOK, TabInv, Keyed, Running, At, PublishToOsLogin
<1>11. /\ VmOK' /\ WinOK' /\ TabsOK'
  BY <1>1, <1>6, VmFrame, WinFrame DEF TabsOK
<1>12. \A w \in Writers : Body(w)'
  BY <1>1, Parts DEF Body
<1> QED  BY <1>9, <1>10, <1>11, <1>12, PartsNext

\* The read that begins an attempt.
LEMMA ReadStep == ASSUME IInv, NEW t \in Tabs, ReadMetadata(t) PROVE IInv'
<1>1. /\ TabsOK /\ meta \in Metas /\ (\A u \in Tabs : TabInv(u))
      /\ UNCHANGED <<cloud, vm, window, win>>
      /\ UNCHANGED <<meta, op, osLogin, keyFile, consent, flight, window>>
  BY Parts DEF ReadMetadata, CloudOK, cloud, vm
<1> DEFINE r == [tab[t] EXCEPT !.attempt = @ + 1, !.user = "local", !.read = meta, !.pc = "write"]
<1>2. /\ tab[t] \in TabRecs /\ tab[t].pc = "read" /\ tab[t].attempt \in {0, 1}
      /\ tab[t].moved \in 0..2 /\ tab[t].moved >= tab[t].attempt /\ Running(t)
      /\ tab[t].key \in Keys /\ tab[t].answer = "none"
  BY <1>1 DEF TabsOK, TabRecs, TabInv, Counting, Keyed, Running, At, ReadMetadata
<1>a. tab[t].attempt + 1 \in 0..2
  BY <1>2
<1>3. /\ r \in TabRecs /\ r.pc = "write" /\ r.read = meta /\ r.attempt = tab[t].attempt + 1
      /\ r.moved = tab[t].moved /\ r.key = tab[t].key /\ r.answer = tab[t].answer
  BY <1>1, <1>2, <1>a DEF TabRecs, TabPcs, Users
<1>4. tab' = [tab EXCEPT ![t] = r]
  BY DEF ReadMetadata
<1> HIDE DEF r
<1>5. /\ tab' \in [Tabs -> TabRecs] /\ tab'[t] = r
      /\ \A u \in Tabs : u # t => tab'[u] = tab[u]
  BY <1>1, <1>3, <1>4 DEF TabsOK
<1>6. Landing(t)' /\ Counting(t)' /\ Keyed(t)'
  BY <1>1, <1>2, <1>3, <1>5 DEF Landing, Counting, Keyed, Running, Early, At
<1>7. \A u \in Tabs : TabInv(u)'
  BY <1>1, <1>2, <1>5, <1>6, GoesOnKeeps
<1>8. /\ flight' \in [Windows -> Tabs \cup {None}] /\ keyFile' \in Keys \cup {None}
      /\ consent' \in {"unset", "yes", "no"}
  BY <1>1 DEF TabsOK
<1> QED  BY <1>1, <1>5, <1>7, <1>8, TabStep

\* What an accepted write adds to the operations keeps what is said of them.
LEMMA AcceptedKeeps ==
  ASSUME IInv, NEW w \in Writers, NEW read \in Metas, NEW body \in Metas,
         Accepted(w, read, body), UNCHANGED <<meta, foreign>>,
         account' \in [profile : BOOLEAN, keys : SUBSET Keys],
         /\ read.keys \subseteq body.keys /\ body.startup = read.startup
         /\ body.request \in {read.request} \cup Resets
  PROVE  CloudOK' /\ (\A v \in Writers : Body(v)')
<1>1. CloudOK /\ \A v \in Writers : Body(v)
  BY Parts
<1>2. /\ op' \in [Writers -> OpRecs]
      /\ op'[w].status = "pending" /\ op'[w].on = read /\ op'[w].body = body
      /\ \A v \in Writers : v # w => op'[v] = op[v]
  BY <1>1, AcceptedEffect
<1>3. CloudOK'
  BY <1>1, <1>2 DEF CloudOK
<1>4. \A v \in Writers : Body(v)'
  BY <1>1, <1>2 DEF Body
<1> QED  BY <1>3, <1>4

\* The write of a tab that is accepted, the call ending or going on.
LEMMA SentKeeps ==
  ASSUME IInv, NEW t \in Tabs, At(t, "write"),
         Accepted(t, tab[t].read, Merged(tab[t].read, tab[t].key)),
         UNCHANGED <<meta, foreign, account>>
  PROVE  /\ CloudOK' /\ (\A v \in Writers : Body(v)')
         /\ op'[t].status = "pending" /\ \A u \in Tabs : u # t => op'[u] = op[u]
<1>1. /\ CloudOK /\ TabsOK /\ t \in Writers /\ Tabs \subseteq Writers
      /\ tab[t].read \in Metas /\ tab[t].key \in Keys
  BY Parts, Membership DEF TabsOK, TabRecs, TabInv, Keyed, Running, At
<1>2. /\ Merged(tab[t].read, tab[t].key) \in Metas
      /\ tab[t].read.keys \subseteq Merged(tab[t].read, tab[t].key).keys
      /\ Merged(tab[t].read, tab[t].key).startup = tab[t].read.startup
      /\ Merged(tab[t].read, tab[t].key).request = tab[t].read.request
  BY <1>1, MergedEffect
<1>3. account' \in [profile : BOOLEAN, keys : SUBSET Keys]
  BY <1>1 DEF CloudOK
<1>4. CloudOK' /\ (\A v \in Writers : Body(v)')
  BY <1>1, <1>2, <1>3, AcceptedKeeps
<1>5. op'[t].status = "pending" /\ \A u \in Tabs : u # t => op'[u] = op[u]
  BY <1>1, <1>2, AcceptedEffect
<1> QED  BY <1>4, <1>5

\* The write: accepted, or refused because the fingerprint is stale.
LEMMA WriteStep == ASSUME IInv, NEW t \in Tabs, WriteMetadata(t) PROVE IInv'
<1>1. /\ TabsOK /\ VmOK /\ WinOK /\ (\A u \in Tabs : TabInv(u)) /\ At(t, "write")
      /\ UNCHANGED <<meta, foreign, account, vm, keyFile, consent, window, win, osLogin>>
  BY Parts DEF WriteMetadata, vm
<1>2. /\ tab[t] \in TabRecs /\ tab[t].pc = "write" /\ tab[t].attempt \in {1, 2}
      /\ tab[t].moved \in 0..2 /\ tab[t].read \in Metas /\ tab[t].key \in Keys
      /\ tab[t].answer = "none"
      /\ tab[t].read # meta => tab[t].moved >= tab[t].attempt
  BY <1>1 DEF TabsOK, TabRecs, TabInv, Counting, Keyed, Running, At
<1>3. CASE Accepted(t, tab[t].read, Merged(tab[t].read, tab[t].key))
           /\ tab' = [tab EXCEPT ![t].pc = AfterWrite, ![t].read = Blank, ![t].landed = FALSE]
           /\ UNCHANGED flight
  <2> DEFINE r == [tab[t] EXCEPT !.pc = "operation", !.read = Blank, !.landed = FALSE]
  <2>1. r \in TabRecs /\ r.pc = "operation" /\ r.answer = tab[t].answer
    BY <1>2, Membership DEF TabRecs, TabPcs
  <2>2. tab' = [tab EXCEPT ![t] = r]
    BY <1>3 DEF AfterWrite
  <2> HIDE DEF r
  <2>3. /\ tab' \in [Tabs -> TabRecs] /\ tab'[t] = r
        /\ \A u \in Tabs : u # t => tab'[u] = tab[u]
    BY <1>1, <2>1, <2>2 DEF TabsOK
  <2>4. /\ CloudOK' /\ (\A v \in Writers : Body(v)')
        /\ op'[t].status = "pending" /\ \A u \in Tabs : u # t => op'[u] = op[u]
    BY <1>1, <1>3, SentKeeps
  <2>5. Landing(t)' /\ Counting(t)' /\ Keyed(t)'
    BY <1>2, <2>1, <2>3, <2>4 DEF Landing, Counting, Keyed, Running, Early, At
  <2>6. \A u \in Tabs : TabInv(u)'
    BY <1>1, <1>2, <1>3, <2>3, <2>4, <2>5, GoesOnKeeps DEF Running
  <2>7. VmOK' /\ WinOK' /\ TabsOK'
    BY <1>1, <1>3, <2>3, VmFrame, WinFrame DEF TabsOK
  <2> QED  BY <2>4, <2>6, <2>7, PartsNext
<1>4. CASE Stale(tab[t].read) /\ MayRetry(tab[t].attempt) /\ Goto(t, "read") /\ UNCHANGED op
  <2>1. UNCHANGED cloud /\ "read" \in TabPcs
    BY <1>1, <1>4 DEF cloud, TabPcs
  <2>2. /\ tab' \in [Tabs -> TabRecs] /\ flight' = flight
        /\ tab'[t] = [tab[t] EXCEPT !.pc = "read"]
        /\ \A u \in Tabs : u # t => tab'[u] = tab[u]
    BY <1>1, <1>4, <2>1, GotoEffect
  <2>3. /\ tab'[t].pc = "read" /\ tab'[t].attempt = tab[t].attempt
        /\ tab'[t].moved = tab[t].moved /\ tab'[t].key = tab[t].key
        /\ tab'[t].answer = tab[t].answer
    BY <1>2, <2>2 DEF TabRecs
  <2>4. tab[t].attempt < 2 /\ tab[t].moved >= tab[t].attempt
    BY <1>2, <1>4 DEF MayRetry, Stale, Sent
  <2>5. Landing(t)' /\ Counting(t)' /\ Keyed(t)'
    BY <1>2, <2>3, <2>4 DEF Landing, Counting, Keyed, Running, Early, At
  <2>6. \A u \in Tabs : TabInv(u)'
    BY <1>1, <1>2, <1>4, <2>2, <2>5, GoesOnKeeps DEF Running
  <2>7. /\ keyFile' \in Keys \cup {None} /\ consent' \in {"unset", "yes", "no"}
        /\ flight' \in [Windows -> Tabs \cup {None}]
    BY <1>1, <2>2 DEF TabsOK
  <2> QED  BY <1>1, <2>1, <2>2, <2>6, <2>7, TabStep
<1>5. CASE Answer(t, "conflict") /\ UNCHANGED op
  BY <1>1, <1>5, AnswerStep DEF TabsOK, cloud
<1> QED  BY <1>3, <1>4, <1>5 DEF WriteMetadata

\* The wait for the operation: only one that is done lets the tab go on.
LEMMA WaitStep == ASSUME IInv, NEW t \in Tabs, WaitForOperation(t) PROVE IInv'
<1>1. /\ TabsOK /\ (\A u \in Tabs : TabInv(u)) /\ tab[t].pc = "operation"
      /\ UNCHANGED <<cloud, vm, keyFile, consent, window, win>>
      /\ UNCHANGED <<meta, op, osLogin>> /\ tab[t] \in TabRecs
  BY Parts DEF WaitForOperation, TabsOK, At, cloud, vm
<1>2. CASE op[t].status = "done"
           /\ tab' = [tab EXCEPT ![t].pc = "session", ![t].late = FALSE] /\ UNCHANGED flight
  <2> DEFINE r == [tab[t] EXCEPT !.pc = "session", !.late = FALSE]
  <2>1. /\ r \in TabRecs /\ r.pc = "session" /\ r.landed = tab[t].landed
        /\ r.answer = tab[t].answer
    BY <1>1 DEF TabRecs, TabPcs
  <2>2. tab' = [tab EXCEPT ![t] = r]
    BY <1>2
  <2> HIDE DEF r
  <2>3. /\ tab' \in [Tabs -> TabRecs] /\ tab'[t] = r
        /\ \A u \in Tabs : u # t => tab'[u] = tab[u]
    BY <1>1, <2>1, <2>2 DEF TabsOK
  <2>4. tab[t].landed /\ tab[t].answer = "none"
    BY <1>1, <1>2 DEF TabInv, Landing, Keyed, Running, At
  <2>5. Landing(t)' /\ Counting(t)' /\ Keyed(t)'
    BY <2>1, <2>3, <2>4 DEF Landing, Counting, Keyed, Running, Early, At
  <2>6. \A u \in Tabs : TabInv(u)'
    BY <1>1, <1>2, <2>3, <2>5, GoesOnKeeps DEF Running
  <2>7. /\ keyFile' \in Keys \cup {None} /\ consent' \in {"unset", "yes", "no"}
        /\ flight' \in [Windows -> Tabs \cup {None}]
    BY <1>1, <1>2 DEF TabsOK
  <2> QED  BY <1>1, <2>3, <2>6, <2>7, TabStep
<1>3. CASE Answer(t, "failed")
  BY <1>1, <1>3, AnswerStep DEF TabsOK
<1> QED  BY <1>2, <1>3 DEF WaitForOperation

\* The logins until the deadline.
LEMMA SessionStep == ASSUME IInv, NEW t \in Tabs, Session(t) PROVE IInv'
<1>1. UNCHANGED <<cloud, vm, keyFile, consent, window, win>> /\ consent \in {"unset", "yes", "no"}
  BY Parts DEF Session, TabsOK
<1>2. Answer(t, "granted") \/ Answer(t, "failed")
  BY DEF Session
<1> QED  BY <1>1, <1>2, AnswerStep

\* A request, the tunnel or a login that fails.
LEMMA BreaksStep == ASSUME IInv, NEW t \in Tabs, Breaks(t) PROVE IInv'
<1>1. /\ TabsOK /\ CloudOK /\ VmOK /\ WinOK /\ (\A u \in Tabs : TabInv(u)) /\ Answer(t, "failed")
      /\ UNCHANGED <<meta, foreign, vm, keyFile, consent, window, win, osLogin>>
  BY Parts DEF Breaks, vm
<1>2. CASE op' = op /\ account' \in [profile : BOOLEAN, keys : SUBSET Keys]
  <2>1. CloudOK' /\ \A w \in Writers : Body(w)'
    BY <1>1, <1>2, Parts DEF CloudOK, Body
  <2>2. /\ tab' \in [Tabs -> TabRecs] /\ flight' \in [Windows -> Tabs \cup {None}]
        /\ \A u \in Tabs : TabInv(u)'
    BY <1>1, <1>2, AnswerKeeps
  <2>3. VmOK' /\ WinOK' /\ TabsOK'
    BY <1>1, <2>2, VmFrame, WinFrame DEF TabsOK
  <2> QED  BY <2>1, <2>2, <2>3, PartsNext
<1>3. CASE At(t, "write") /\ UNCHANGED account
           /\ Accepted(t, tab[t].read, Merged(tab[t].read, tab[t].key))
  <2>1. /\ CloudOK' /\ (\A v \in Writers : Body(v)')
        /\ \A u \in Tabs : u # t => op'[u] = op[u]
    BY <1>1, <1>3, SentKeeps
  <2>2. /\ tab' \in [Tabs -> TabRecs] /\ flight' \in [Windows -> Tabs \cup {None}]
        /\ \A u \in Tabs : TabInv(u)'
    BY <1>1, <2>1, AnswerKeeps
  <2>3. VmOK' /\ WinOK' /\ TabsOK'
    BY <1>1, <2>2, VmFrame, WinFrame DEF TabsOK
  <2> QED  BY <2>1, <2>2, <2>3, PartsNext
<1>4. At(t, "publish") => tab[t].key \in Keys
  BY <1>1 DEF TabInv, Keyed, Running, At
<1>5. account \in [profile : BOOLEAN, keys : SUBSET Keys]
  BY <1>1 DEF CloudOK
<1>6. CASE At(t, "publish") /\ account' = [profile |-> TRUE, keys |-> account.keys \cup {tab[t].key}]
           /\ UNCHANGED op
  BY <1>2, <1>4, <1>5, <1>6
<1>7. CASE UNCHANGED <<account, op>>
  BY <1>2, <1>5, <1>7
<1> QED  BY <1>3, <1>6, <1>7 DEF Breaks

\* A deadline that passes.
LEMMA ExpiresStep == ASSUME IInv, NEW t \in Tabs, TabExpires(t) PROVE IInv'
<1>1. /\ TabsOK /\ (\A u \in Tabs : TabInv(u)) /\ tab[t] \in TabRecs
      /\ UNCHANGED <<cloud, vm, keyFile, consent, window, win, flight>>
      /\ UNCHANGED <<meta, op, osLogin>> /\ tab[t].pc \in {"operation", "session"}
  BY Parts DEF TabExpires, TabsOK, cloud, vm
<1> DEFINE r == [tab[t] EXCEPT !.late = TRUE]
<1>2. /\ r \in TabRecs /\ r.pc = tab[t].pc /\ r.landed = tab[t].landed
      /\ r.answer = tab[t].answer
  BY <1>1 DEF TabRecs
<1>3. tab' = [tab EXCEPT ![t] = r]
  BY DEF TabExpires
<1> HIDE DEF r
<1>4. /\ tab' \in [Tabs -> TabRecs] /\ tab'[t] = r
      /\ \A u \in Tabs : u # t => tab'[u] = tab[u]
  BY <1>1, <1>2, <1>3 DEF TabsOK
<1>5. Landing(t)' /\ Counting(t)' /\ Keyed(t)'
  BY <1>1, <1>2, <1>4 DEF TabInv, Landing, Counting, Keyed, Running, Early, At
<1>6. \A u \in Tabs : TabInv(u)'
  BY <1>1, <1>4, <1>5, GoesOnKeeps DEF Running
<1>7. /\ keyFile' \in Keys \cup {None} /\ consent' \in {"unset", "yes", "no"}
      /\ flight' \in [Windows -> Tabs \cup {None}]
  BY <1>1 DEF TabsOK
<1> QED  BY <1>1, <1>4, <1>6, <1>7, TabStep

\* The tabs do not see a step that changes neither them nor the metadata.
LEMMA TabsUntouched ==
  ASSUME TabsOK, \A u \in Tabs : TabInv(u), UNCHANGED ssh, UNCHANGED <<meta, osLogin>>,
         \A u \in Tabs : op'[u].status = "done" => op[u].status = "done"
  PROVE  \A u \in Tabs : TabInv(u)'
<1>1. \A u \in Tabs : Kept(u)
  BY DEF Kept, ssh
<1>2. UNCHANGED <<window, flight>>
  BY DEF ssh
<1> QED  BY <1>1, <1>2, KeptKeeps

\* A step of a reset that sends nothing.
LEMMA ResetStep ==
  ASSUME IInv, UNCHANGED <<cloud, vm, ssh>>, WinOK'
  PROVE  IInv'
<1>1. CloudOK' /\ VmOK' /\ TabsOK'
  BY Parts, CloudFrame, VmFrame, TabsFrame
<1>2. UNCHANGED <<meta, op, osLogin>>
  BY DEF cloud, vm
<1>3. (\A u \in Tabs : TabInv(u)') /\ (\A w \in Writers : Body(w)')
  BY <1>2, Parts, TabsUntouched DEF Body
<1> QED  BY <1>1, <1>3, PartsNext

\* A reset that takes its record to rec.
LEMMA RecType ==
  ASSUME WinOK, NEW r \in Resets, NEW rec \in ResetRecs, reset' = [reset EXCEPT ![r] = rec],
         stored' \in Moduli \cup {None}
  PROVE  WinOK'
  BY DEF WinOK

\* The record of a reset that has ended.
LEMMA EndedType ==
  ASSUME NEW a \in {"ok", "failed"}
  PROVE  [pc |-> "idle", read |-> Blank, late |-> FALSE, from |-> 0, answer |-> a] \in ResetRecs
  BY Membership DEF ResetRecs

\* The steps of a reset but the write: they touch nobody else's state.
LEMMA ResetStays ==
  ASSUME IInv, NEW r \in Resets,
         \/ StartReset(r) \/ ResetReads(r) \/ PollPort(r) \/ PollEnds(r)
         \/ StorePassword(r) \/ ResetExpires(r)
  PROVE  IInv'
<1>1. /\ WinOK /\ CloudOK /\ VmOK /\ reset[r] \in ResetRecs /\ stored \in Moduli \cup {None}
      /\ meta \in Metas /\ r \in Moduli
  BY Parts, Membership DEF WinOK, CloudOK
<1>2. UNCHANGED <<cloud, vm, ssh>>
  BY DEF StartReset, ResetReads, PollPort, PollEnds, StorePassword, ResetExpires
<1>3. CASE StartReset(r)
  <2>1. [reset[r] EXCEPT !.pc = "read"] \in ResetRecs
    BY <1>1 DEF ResetRecs
  <2> QED  BY <1>1, <1>2, <1>3, <2>1, RecType, ResetStep DEF StartReset, Step
<1>4. CASE ResetReads(r)
  <2> DEFINE rec == [reset[r] EXCEPT !.pc = "write", !.read = meta]
  <2>1. rec \in ResetRecs
    BY <1>1 DEF ResetRecs
  <2>2. reset' = [reset EXCEPT ![r] = rec] /\ stored' = stored
    BY <1>4 DEF ResetReads
  <2> HIDE DEF rec
  <2> QED  BY <1>1, <1>2, <2>1, <2>2, RecType, ResetStep
<1>5. CASE PollPort(r)
  <2>1. Written \in Nat
    <3>1. serial.lines \in Seq(Moduli)
      BY <1>1 DEF VmOK
    <3>2. Len(serial.lines) \in Nat /\ serial.open \in BOOLEAN
      BY <1>1, <3>1 DEF VmOK
    <3>3. serial.open => Len(serial.lines) > 0
      BY <1>1, <3>1 DEF VmOK
    <3> QED  BY <3>2, <3>3 DEF Written
  <2>2. [reset[r] EXCEPT !.from = Written] \in ResetRecs
    BY <1>1, <2>1 DEF ResetRecs
  <2>3. [reset[r] EXCEPT !.pc = "store", !.from = 0] \in ResetRecs
    BY <1>1 DEF ResetRecs
  <2>4. stored' = stored
    BY <1>5 DEF PollPort
  <2>5. CASE reset' = [reset EXCEPT ![r].from = Written]
    BY <1>1, <1>2, <2>2, <2>4, <2>5, RecType, ResetStep
  <2>6. CASE reset' = [reset EXCEPT ![r].pc = "store", ![r].from = 0]
    <3>1. reset' = [reset EXCEPT ![r] = [reset[r] EXCEPT !.pc = "store", !.from = 0]]
      BY <2>6
    <3> QED  BY <1>1, <1>2, <2>3, <2>4, <3>1, RecType, ResetStep
  <2>7. CASE Ends(r, "failed")
    BY <1>1, <1>2, <2>4, <2>7, EndedType, RecType, ResetStep DEF Ends
  <2> QED  BY <1>5, <2>5, <2>6, <2>7 DEF PollPort
<1>6. CASE PollEnds(r)
  BY <1>1, <1>2, <1>6, EndedType, RecType, ResetStep DEF PollEnds, Ends
<1>7. CASE StorePassword(r)
  BY <1>1, <1>2, <1>7, EndedType, RecType, ResetStep DEF StorePassword, Ends
<1>8. CASE ResetExpires(r)
  <2>1. [reset[r] EXCEPT !.late = TRUE] \in ResetRecs
    BY <1>1 DEF ResetRecs
  <2> QED  BY <1>1, <1>2, <1>8, <2>1, RecType, ResetStep DEF ResetExpires
<1> QED  BY <1>3, <1>4, <1>5, <1>6, <1>7, <1>8

\* The write of a reset that is accepted, the reset ending or going on.
LEMMA RequestKeeps ==
  ASSUME IInv, NEW r \in Resets, reset[r].pc = "write",
         Accepted(r, reset[r].read, [reset[r].read EXCEPT !.request = r]),
         UNCHANGED <<meta, foreign, account, vm, ssh>>, WinOK'
  PROVE  IInv'
<1>1. /\ TabsOK /\ CloudOK /\ r \in Writers /\ Tabs \subseteq Writers /\ r \notin Tabs
      /\ reset[r].read \in Metas /\ r \in Moduli /\ UNCHANGED osLogin
  BY Parts, Membership DEF WinOK, ResetRecs, vm
<1> DEFINE body == [reset[r].read EXCEPT !.request = r]
<1>2. /\ body \in Metas /\ reset[r].read.keys \subseteq body.keys
      /\ body.startup = reset[r].read.startup /\ body.request \in {reset[r].read.request} \cup Resets
  BY <1>1 DEF Metas
<1> HIDE DEF body
<1>3. Accepted(r, reset[r].read, body)
  BY DEF body
<1>4. account' \in [profile : BOOLEAN, keys : SUBSET Keys]
  BY <1>1 DEF CloudOK
<1>5. CloudOK' /\ (\A v \in Writers : Body(v)')
  BY <1>1, <1>2, <1>3, <1>4, AcceptedKeeps
<1>6. \A u \in Tabs : op'[u] = op[u]
  BY <1>1, <1>2, <1>3, AcceptedEffect
<1>7. \A u \in Tabs : TabInv(u)'
  BY <1>1, <1>6, Parts, TabsUntouched
<1>8. VmOK' /\ TabsOK'
  BY Parts, VmFrame, TabsFrame
<1> QED  BY <1>5, <1>7, <1>8, PartsNext

\* The write of a reset, or its refusal.
LEMMA ResetWritesStep == ASSUME IInv, NEW r \in Resets, ResetWrites(r) PROVE IInv'
<1>1. /\ WinOK /\ reset[r] \in ResetRecs /\ stored \in Moduli \cup {None} /\ reset[r].pc = "write"
      /\ UNCHANGED <<meta, foreign, account, vm, ssh, stored>>
  BY Parts DEF WinOK, ResetWrites
<1>2. CASE Accepted(r, reset[r].read, [reset[r].read EXCEPT !.request = r])
           /\ reset' = [reset EXCEPT ![r].pc = "poll", ![r].read = Blank]
  <2> DEFINE rec == [reset[r] EXCEPT !.pc = "poll", !.read = Blank]
  <2>1. rec \in ResetRecs
    BY <1>1, Membership DEF ResetRecs
  <2>2. reset' = [reset EXCEPT ![r] = rec]
    BY <1>2
  <2> HIDE DEF rec
  <2>3. WinOK'
    BY <1>1, <2>1, <2>2, RecType
  <2> QED  BY <1>1, <1>2, <2>3, RequestKeeps
<1>3. CASE Ends(r, "failed") /\ UNCHANGED op
  <2>1. WinOK'
    BY <1>1, <1>3, EndedType, RecType DEF Ends
  <2>2. UNCHANGED cloud
    BY <1>1, <1>3 DEF cloud
  <2> QED  BY <1>1, <2>1, <2>2, ResetStep
<1> QED  BY <1>2, <1>3 DEF ResetWrites

\* A reset that fails.
LEMMA ResetBreaksStep == ASSUME IInv, NEW r \in Resets, ResetBreaks(r) PROVE IInv'
<1>1. /\ WinOK /\ Ends(r, "failed") /\ stored' \in Moduli \cup {None}
      /\ UNCHANGED <<meta, foreign, account, vm, ssh>>
  BY Parts, Membership DEF WinOK, ResetBreaks
<1>2. WinOK'
  BY <1>1, EndedType, RecType DEF Ends
<1>3. CASE UNCHANGED op
  <2>1. UNCHANGED cloud
    BY <1>1, <1>3 DEF cloud
  <2> QED  BY <1>1, <1>2, <2>1, ResetStep
<1>4. CASE reset[r].pc = "write" /\ Accepted(r, reset[r].read, [reset[r].read EXCEPT !.request = r])
  BY <1>1, <1>2, <1>4, RequestKeeps
<1> QED  BY <1>3, <1>4 DEF ResetBreaks

\* A change of the metadata: the tabs count it.
LEMMA MetaStep ==
  ASSUME IInv, NEW w \in Writers \cup {None}, tab' = Noticed(w),
         UNCHANGED <<vm, keyFile, consent, window, flight, win>>,
         CloudOK', \A v \in Writers : Body(v)',
         \A t \in Tabs : op'[t] = op[t] \/ t = w
  PROVE  IInv'
<1>1. TabsOK /\ (\A u \in Tabs : TabInv(u)) /\ UNCHANGED osLogin
  BY Parts DEF vm
<1>2. /\ tab' \in [Tabs -> TabRecs]
      /\ \A u \in Tabs :
           /\ tab'[u].pc = tab[u].pc /\ tab'[u].attempt = tab[u].attempt
           /\ tab'[u].read = tab[u].read /\ tab'[u].key = tab[u].key
           /\ tab'[u].answer = tab[u].answer
           /\ tab'[u].landed = (tab[u].landed \/ u = w)
           /\ tab'[u].moved \in 0..2 /\ tab'[u].moved >= tab[u].moved
           /\ tab[u].attempt > 0 /\ tab[u].pc \in {"read", "write"} /\ tab[u].moved < 2
                 => tab'[u].moved = tab[u].moved + 1
  BY <1>1, NoticedEffect
<1>3. ASSUME NEW u \in Tabs PROVE TabInv(u)'
  <2>1. Flies(u)' /\ Keyed(u)'
    BY <1>1, <1>2 DEF TabInv, Flies, Keyed, Running
  <2>2. Landing(u)'
    <3>1. (u = w) => tab'[u].landed
      BY <1>2
    <3>2. (u # w) => op'[u] = op[u]
      OBVIOUS
    <3>3. tab[u].landed => tab'[u].landed
      BY <1>2
    <3>4. tab'[u].pc = tab[u].pc /\ Landing(u)
      BY <1>1, <1>2 DEF TabInv
    <3>5. At(u, "operation") /\ op'[u].status = "done" => tab'[u].landed
      BY <3>1, <3>2, <3>3, <3>4 DEF Landing
    <3> QED  BY <1>1, <3>3, <3>4, <3>5 DEF Landing, At
  <2>3. Counting(u)'
    <3>1. /\ tab[u].attempt \in 0..2 /\ tab[u].moved \in 0..2 /\ Counting(u)
          /\ tab'[u].attempt = tab[u].attempt
      BY <1>1, <1>2 DEF TabsOK, TabRecs, TabInv
    <3>2. At(u, "write") => tab'[u].moved >= tab[u].attempt
      BY <1>2, <3>1 DEF Counting, At
    <3> QED  BY <1>2, <3>1, <3>2 DEF Counting, Early, At
  <2> QED  BY <2>1, <2>2, <2>3 DEF TabInv
<1>4. VmOK' /\ WinOK' /\ TabsOK'
  BY <1>1, <1>2, Parts, VmFrame, WinFrame DEF TabsOK
<1> QED  BY <1>3, <1>4, PartsNext

\* A write that lands does to the items what it was accepted for.
LEMMA LandsStep == ASSUME IInv, NEW w \in Writers, Lands(w) PROVE IInv'
<1>1. CloudOK /\ (\A v \in Writers : Body(v)) /\ op[w] \in OpRecs
  BY Parts DEF CloudOK
<1>2. op[w].body \in Metas
  BY <1>1 DEF OpRecs
<1> DEFINE r == [NoOp EXCEPT !.status = "done"]
<1>3. r \in OpRecs /\ r.status = "done"
  BY Membership DEF OpRecs, NoOp
<1>4. /\ op' = [op EXCEPT ![w] = r] /\ meta' = op[w].body /\ tab' = Noticed(w)
      /\ UNCHANGED <<foreign, account, vm, keyFile, consent, window, flight, win>>
  BY DEF Lands
<1> HIDE DEF r
<1>5. CloudOK' /\ op'[w].status = "done" /\ \A v \in Writers : v # w => op'[v] = op[v]
  BY <1>1, <1>2, <1>3, <1>4 DEF CloudOK
<1>6. \A v \in Writers : Body(v)'
  BY <1>1, <1>5 DEF Body
<1> QED  BY <1>4, <1>5, <1>6, MetaStep, Membership

\* Somebody else's write.
LEMMA OthersStep == ASSUME IInv, OthersWrite PROVE IInv'
<1>1. CloudOK /\ (\A v \in Writers : Body(v)) /\ Theirs \in Moduli
  BY Parts, Membership
<1>2. /\ tab' = Noticed(None) /\ op' = op
      /\ UNCHANGED <<op, account, vm, keyFile, consent, window, flight, win>>
  BY DEF OthersWrite
<1>3. meta' \in Metas
  BY <1>1 DEF CloudOK, OthersWrite, Metas
<1>4. foreign' \in 0..MaxForeign
  BY <1>1, AccessAssumption DEF CloudOK, OthersWrite
<1>5. CloudOK' /\ \A v \in Writers : Body(v)'
  BY <1>1, <1>2, <1>3, <1>4 DEF CloudOK, Body
<1> QED  BY <1>2, <1>5, MetaStep

\* A write that fails after it was accepted.
LEMMA FailsToLandStep == ASSUME IInv, NEW w \in Writers, FailsToLand(w) PROVE IInv'
<1> DEFINE r == [NoOp EXCEPT !.status = "error"]
<1>1. r \in OpRecs /\ r.status = "error"
  BY Membership DEF OpRecs, NoOp
<1>2. /\ op' = [op EXCEPT ![w] = r] /\ UNCHANGED <<meta, foreign, account, vm, ssh, win>>
  BY DEF FailsToLand
<1> HIDE DEF r
<1>3. CloudOK /\ (\A v \in Writers : Body(v))
  BY Parts
<1>4. /\ CloudOK' /\ op'[w].status = "error"
      /\ \A v \in Writers : v # w => op'[v] = op[v]
  BY <1>1, <1>2, <1>3 DEF CloudOK
<1>5. \A v \in Writers : Body(v)'
  BY <1>3, <1>4 DEF Body
<1>6. \A u \in Tabs : TabInv(u)'
  <2>1. \A u \in Tabs : op'[u].status = "done" => op[u].status = "done"
    BY <1>4, Membership
  <2>2. UNCHANGED <<ssh, meta, osLogin>>
    BY <1>2 DEF vm
  <2> QED  BY <2>1, <2>2, Parts, TabsUntouched
<1>7. VmOK' /\ TabsOK' /\ WinOK'
  BY <1>2, Parts, VmFrame, TabsFrame, WinFrame
<1> QED  BY <1>4, <1>5, <1>6, <1>7, PartsNext

\* The VM's agent.
LEMMA AgentStep == ASSUME IInv, Agent PROVE IInv'
<1>1. CloudOK /\ VmOK /\ TabsOK /\ WinOK
  BY Parts
<1>2. UNCHANGED <<cloud, ssh, win>> /\ UNCHANGED <<meta, op, osLogin, guest>>
  BY DEF Agent, AgentSyncs, AgentStartsLine, AgentEndsLine, cloud
<1>3. VmOK'
  <2>1. CASE AgentSyncs
    <3>1. authorised' \subseteq Users \X Keys
      BY <1>1, <2>1 DEF AgentSyncs, CloudOK, Metas, Users
    <3> QED  BY <1>1, <2>1, <3>1 DEF VmOK, AgentSyncs
  <2>2. CASE AgentStartsLine
    <3>1. meta.request \in Moduli /\ serial.lines \in Seq(Moduli)
      BY <1>1, <2>2 DEF AgentStartsLine, CloudOK, VmOK, Metas
    <3>2. Append(serial.lines, meta.request) \in Seq(Moduli)
          /\ Append(serial.lines, meta.request) # <<>>
      BY <3>1
    <3> QED  BY <1>1, <2>2, <3>1, <3>2 DEF VmOK, AgentStartsLine
  <2>3. CASE AgentEndsLine
    BY <1>1, <2>3 DEF VmOK, AgentEndsLine
  <2> QED  BY <2>1, <2>2, <2>3 DEF Agent
<1>4. CloudOK' /\ TabsOK' /\ WinOK'
  BY <1>1, <1>2, CloudFrame, TabsFrame, WinFrame
<1>5. (\A u \in Tabs : TabInv(u)') /\ (\A w \in Writers : Body(w)')
  BY <1>2, Parts, TabsUntouched DEF Body
<1> QED  BY <1>3, <1>4, <1>5, PartsNext

\* A step that changes nothing.
LEMMA Stutters == ASSUME IInv, UNCHANGED vars PROVE IInv'
<1>1. UNCHANGED <<cloud, vm, ssh, win>>
  BY DEF vars
<1>2. WinOK'
  BY <1>1, Parts, WinFrame
<1> QED  BY <1>1, <1>2, ResetStep

-----------------------------------------------------------------------------
\* The initial states satisfy the invariant.
LEMMA Initially == Init => IInv
<1> SUFFICES ASSUME Init PROVE IInv
  OBVIOUS
<1>1. CloudOK
  <2>1. account \in [profile : BOOLEAN, keys : SUBSET Keys]
    BY DEF Init
  <2>2. op \in [Writers -> OpRecs] /\ meta \in Metas /\ foreign \in 0..MaxForeign
    BY Membership, AccessAssumption DEF Init
  <2> QED  BY <2>1, <2>2 DEF CloudOK
<1>2. VmOK
  <2>1. serial \in [lines : Seq(Moduli), open : BOOLEAN] /\ ~serial.open
    BY DEF Init
  <2>2. guest \in {"linux", "windows"} /\ osLogin \in BOOLEAN
    BY DEF Init
  <2>3. authorised \subseteq Users \X Keys /\ handled \in Moduli \cup {None}
    BY DEF Init
  <2> QED  BY <2>1, <2>2, <2>3 DEF VmOK
<1>3. TabsOK
  BY FreshType DEF Init, TabsOK
<1>4. WinOK
  <2>1. [pc |-> "idle", read |-> Blank, late |-> FALSE, from |-> 0, answer |-> "none"] \in ResetRecs
    BY Membership DEF ResetRecs
  <2> QED  BY <2>1, Membership DEF Init, WinOK
<1>5. \A t \in Tabs : TabInv(t)
  BY FreshType DEF Init, TabInv, Flies, Landing, Counting, Keyed, Running, Early, At
<1>6. \A w \in Writers : Body(w)
  BY DEF Init, Body, NoOp
<1> QED  BY <1>1, <1>2, <1>3, <1>4, <1>5, <1>6, Parts

\* Every step keeps it.
LEMMA Inductive == IInv /\ [Next]_vars => IInv'
<1> SUFFICES ASSUME IInv, [Next]_vars PROVE IInv'
  OBVIOUS
<1>1. ASSUME NEW t \in Tabs, Ensure(t) \/ TabRuns(t) \/ UserAnswers(t) \/ Breaks(t) \/ TabExpires(t)
      PROVE  IInv'
  BY <1>1, EnsureStep, ProbeStep, ProbeKeyStep, ConsentStep, PublishStep, ReadStep, WriteStep,
     WaitStep, SessionStep, BreaksStep, ExpiresStep DEF TabRuns
<1>2. ASSUME NEW r \in Resets,
             StartReset(r) \/ ResetRuns(r) \/ PollPort(r) \/ ResetBreaks(r) \/ ResetExpires(r)
      PROVE  IInv'
  BY <1>2, ResetStays, ResetWritesStep, ResetBreaksStep DEF ResetRuns
<1>3. ASSUME NEW w \in Writers, Lands(w) \/ FailsToLand(w) PROVE IInv'
  BY <1>3, LandsStep, FailsToLandStep
<1>4. CASE OthersWrite \/ Agent
  BY <1>4, OthersStep, AgentStep
<1>5. CASE UNCHANGED vars
  BY <1>5, Stutters
<1> QED  BY <1>1, <1>2, <1>3, <1>4, <1>5 DEF Next

\* The invariant of every behaviour.
LEMMA Invariant == Spec => []IInv
<1>1. Init => IInv
  BY Initially
<1>2. IInv /\ [Next]_vars => IInv'
  BY Inductive
<1> QED  BY <1>1, <1>2, PTL DEF Spec

\* Every variable keeps its type, for any tabs, windows, resets and keys.
THEOREM TypeCorrect == Spec => []TypeOK
<1>1. IInv => TypeOK
  BY Parts, TypeParts
<1> QED  BY <1>1, Invariant, PTL

\* A tab goes on to log in with a key it published in the metadata only after
\* the write took effect, however the server's operations end and however many
\* others write.
THEOREM PublishedOnlyIfLanded == Spec => []PublishedMeansLanded
<1>1. IInv => PublishedMeansLanded
  BY Parts DEF PublishedMeansLanded, TabInv, Landing
<1> QED  BY <1>1, Invariant, PTL

\* However many tabs a window has, one of them probes, asks and publishes.
THEOREM SingleFlight == Spec => []OneFlight
<1>1. IInv => OneFlight
  BY Parts DEF OneFlight, TabInv, Flies, Running
<1> QED  BY <1>1, Invariant, PTL

-----------------------------------------------------------------------------
\* A tab at its write is answered by nobody but itself.
LEMMA OwnAnswer ==
  ASSUME TabsOK, NEW t \in Tabs, At(t, "write"), NEW u \in Tabs,
         NEW a \in {"none", "granted", "refused", "conflict", "failed"}, Answer(u, a)
  PROVE  tab'[t] = tab[t] \/ (u = t /\ tab'[t].answer = a)
<1>1. tab'[t] # tab[t] => t = u
  BY AnswerEffect DEF At
<1>2. tab'[u] = Fresh(a) /\ Fresh(a).answer = a
  BY AnswerEffect, FreshType
<1> QED  BY <1>1, <1>2

\* Only its write answers a tab with a conflict.
LEMMA OnlyWritesConflict ==
  ASSUME IInv, [Next]_vars, NEW t \in Tabs, At(t, "write"), tab'[t].answer = "conflict"
  PROVE  WriteMetadata(t)
<1>1. TabsOK /\ tab[t].answer = "none" /\ tab \in [Tabs -> TabRecs]
  BY Parts DEF TabInv, Keyed, Running, At, TabsOK
<1>2. tab'[t] # tab[t]
  BY <1>1
<1>3. ASSUME NEW u \in Tabs, Ensure(u) PROVE FALSE
  BY <1>1, <1>2, <1>3 DEF Ensure, At
<1>4. ASSUME NEW u \in Tabs, Probe(u) \/ Consent(u) \/ UserAnswers(u) PROVE FALSE
  <2>1. u # t
    BY <1>4 DEF Probe, Consent, UserAnswers, At
  <2>2. \/ Answer(u, "granted") \/ Answer(u, "refused") \/ Answer(u, "failed")
        \/ Goto(u, "key") \/ Goto(u, "provision") \/ Goto(u, "asking")
    BY <1>4 DEF Probe, Consent, UserAnswers
  <2>3. CASE Goto(u, "key") \/ Goto(u, "provision") \/ Goto(u, "asking")
    BY <1>1, <1>2, <2>1, <2>3 DEF Goto
  <2> QED  BY <1>1, <1>2, <2>1, <2>2, <2>3, OwnAnswer
<1>5. ASSUME NEW u \in Tabs, ProbeKey(u) \/ Provision(u) PROVE FALSE
  <2>1. u # t
    BY <1>5 DEF ProbeKey, Provision, At
  <2> QED  BY <1>1, <1>2, <1>5, <2>1 DEF ProbeKey, Provision, LoadKey
<1>6. ASSUME NEW u \in Tabs, PublishToOsLogin(u) \/ ReadMetadata(u) \/ TabExpires(u) PROVE FALSE
  BY <1>1, <1>2, <1>6 DEF PublishToOsLogin, ReadMetadata, TabExpires, At
<1>7. ASSUME NEW u \in Tabs, WaitForOperation(u) \/ Session(u) PROVE FALSE
  <2>1. u # t
    BY <1>7 DEF WaitForOperation, Session, At
  <2>2. \/ Answer(u, "granted") \/ Answer(u, "failed")
        \/ tab' = [tab EXCEPT ![u].pc = "session", ![u].late = FALSE]
    BY <1>7 DEF WaitForOperation, Session
  <2> QED  BY <1>1, <1>2, <2>1, <2>2, OwnAnswer
<1>8. ASSUME NEW u \in Tabs, Breaks(u) PROVE FALSE
  <2>1. Answer(u, "failed")
    BY <1>8 DEF Breaks
  <2> QED  BY <1>1, <1>2, <2>1, OwnAnswer
<1>9. ASSUME NEW u \in Tabs, WriteMetadata(u), u # t PROVE FALSE
  <2>1. \/ tab' = [tab EXCEPT ![u].pc = AfterWrite, ![u].read = Blank, ![u].landed = FALSE]
        \/ Goto(u, "read") \/ Answer(u, "conflict")
    BY <1>9 DEF WriteMetadata
  <2> QED  BY <1>1, <1>2, <1>9, <2>1, OwnAnswer DEF Goto
<1>10. ASSUME NEW r \in Resets,
              StartReset(r) \/ ResetRuns(r) \/ PollPort(r) \/ ResetBreaks(r) \/ ResetExpires(r)
       PROVE  FALSE
  BY <1>2, <1>10 DEF StartReset, ResetRuns, ResetReads, ResetWrites, PollEnds, StorePassword,
     PollPort, ResetBreaks, ResetExpires, ssh
<1>11. ASSUME NEW w, tab' = Noticed(w) PROVE FALSE
  BY <1>1, <1>11, NoticedEffect
<1>12. ASSUME NEW w \in Writers, Lands(w) \/ FailsToLand(w) PROVE FALSE
  BY <1>2, <1>11, <1>12 DEF Lands, FailsToLand, ssh
<1>13. CASE OthersWrite \/ Agent
  BY <1>2, <1>11, <1>13 DEF OthersWrite, Agent, AgentSyncs, AgentStartsLine, AgentEndsLine, ssh
<1>14. CASE UNCHANGED vars
  BY <1>2, <1>14 DEF vars, ssh
<1>15. ASSUME NEW u \in Tabs,
              Ensure(u) \/ TabRuns(u) \/ UserAnswers(u) \/ Breaks(u) \/ TabExpires(u)
       PROVE  WriteMetadata(t)
  BY <1>3, <1>4, <1>5, <1>6, <1>7, <1>8, <1>9, <1>15 DEF TabRuns
<1> QED  BY <1>10, <1>12, <1>13, <1>14, <1>15 DEF Next

\* A call gives up for a conflict only after two changes by others since its
\* first read: the retry absorbs one, whoever makes it and whenever it lands.
THEOREM ConflictIsContention == Spec => ConflictMeansContention
<1>1. ASSUME IInv, [Next]_vars, NEW t \in Tabs, At(t, "write"), tab'[t].answer = "conflict"
      PROVE  tab[t].moved = 2
  <2>1. WriteMetadata(t)
    BY <1>1, OnlyWritesConflict
  <2>2. /\ tab[t] \in TabRecs /\ tab[t].attempt \in {1, 2} /\ tab[t].moved \in 0..2
        /\ tab[t].answer = "none"
        /\ tab[t].read # meta => tab[t].moved >= tab[t].attempt
    BY <1>1, Parts DEF TabsOK, TabRecs, TabInv, Counting, Keyed, Running, At
  <2>3. tab \in [Tabs -> TabRecs]
    BY <1>1, Parts DEF TabsOK
  <2>4. Answer(t, "conflict") /\ Stale(tab[t].read) /\ ~MayRetry(tab[t].attempt)
    <3>1. CASE tab' = [tab EXCEPT ![t].pc = AfterWrite, ![t].read = Blank, ![t].landed = FALSE]
      <4>1. tab'[t].answer = tab[t].answer
        BY <2>2, <2>3, <3>1 DEF TabRecs
      <4> QED  BY <1>1, <2>2, <4>1
    <3>2. CASE Goto(t, "read")
      <4>1. tab'[t].answer = tab[t].answer
        BY <2>2, <2>3, <3>2 DEF Goto, TabRecs
      <4> QED  BY <1>1, <2>2, <4>1
    <3> QED  BY <2>1, <3>1, <3>2 DEF WriteMetadata
  <2> QED  BY <2>2, <2>4 DEF Stale, Sent, MayRetry
<1>2. IInv /\ [Next]_vars
        => [\A t \in Tabs : At(t, "write") /\ tab'[t].answer = "conflict" => tab[t].moved = 2]_vars
  BY <1>1
<1> QED  BY <1>2, Invariant, PTL DEF Spec, ConflictMeansContention

\* What LCC writes keeps the keys and the items of everybody else: every write
\* that lands was computed from the very metadata it replaces.
THEOREM NothingLost == Spec => NobodyLosesAnItem
<1> DEFINE Kind == /\ meta.keys \subseteq meta'.keys
                   /\ foreign' = foreign =>
                         /\ meta'.startup = meta.startup
                         /\ meta'.request \in {meta.request} \cup Resets
<1>1. ASSUME NEW w \in Writers, IInv, Lands(w) PROVE Kind
  <2>1. Body(w) /\ op[w].on = meta /\ op[w].status = "pending" /\ meta' = op[w].body
    BY <1>1, Parts DEF Lands
  <2> QED  BY <2>1 DEF Body
<1>2. ASSUME IInv, OthersWrite PROVE Kind
  <2>1. foreign' # foreign
    BY <1>2, Parts, AccessAssumption DEF CloudOK, OthersWrite
  <2>2. meta'.keys = meta.keys
    BY <1>2, Parts DEF CloudOK, OthersWrite, Metas
  <2> QED  BY <2>1, <2>2
<1>3. ASSUME meta' = meta PROVE Kind
  BY <1>3
<1> HIDE DEF Kind
<1>4. ASSUME NEW t \in Tabs,
             Ensure(t) \/ TabRuns(t) \/ UserAnswers(t) \/ Breaks(t) \/ TabExpires(t)
      PROVE  meta' = meta
  BY <1>4 DEF Ensure, TabRuns, Probe, ProbeKey, Consent, Provision, PublishToOsLogin, ReadMetadata,
     WriteMetadata, WaitForOperation, Session, UserAnswers, Breaks, TabExpires, cloud
<1>5. ASSUME NEW r \in Resets,
             StartReset(r) \/ ResetRuns(r) \/ PollPort(r) \/ ResetBreaks(r) \/ ResetExpires(r)
      PROVE  meta' = meta
  BY <1>5 DEF StartReset, ResetRuns, ResetReads, ResetWrites, PollEnds, StorePassword,
     PollPort, ResetBreaks, ResetExpires, cloud
<1>6. ASSUME NEW w \in Writers, FailsToLand(w) PROVE meta' = meta
  BY <1>6 DEF FailsToLand
<1>7. ASSUME Agent \/ UNCHANGED vars PROVE meta' = meta
  BY <1>7 DEF Agent, AgentSyncs, AgentStartsLine, AgentEndsLine, vars, cloud
<1>8. IInv /\ [Next]_vars => [Kind]_vars
  BY <1>1, <1>2, <1>3, <1>4, <1>5, <1>6, <1>7 DEF Next
<1>9. IInv /\ [Next]_vars
        => [/\ meta.keys \subseteq meta'.keys
            /\ foreign' = foreign =>
                  /\ meta'.startup = meta.startup
                  /\ meta'.request \in {meta.request} \cup Resets]_vars
  BY <1>8 DEF Kind
<1> QED  BY <1>9, Invariant, PTL DEF Spec, NobodyLosesAnItem
================================================================================
