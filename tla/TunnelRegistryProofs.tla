------------------------- MODULE TunnelRegistryProofs -------------------------
(***************************************************************************)
(* Theorems about TunnelRegistry, for every value of its constants.        *)
(*                                                                         *)
(* TypeInv is the type invariant and what it leaves out of a thread inside *)
(* a start; Shape adds that every backend is in one place and was created  *)
(* before; Owned adds that of the starts of the single flight a key has    *)
(* one, and meanwhile only such tunnels as others opened, which is what    *)
(* makes Accounted inductive; Young and SparedSeen relate the clocks and   *)
(* the reaper's view of the connections to what a sweep may remove.        *)
(***************************************************************************)
EXTENDS TunnelRegistry, TLAPS

\* What TypeOK does not say of a thread inside a start: it has a key, it has a
\* backend from the moment one exists, and it asks after the port only while
\* it has attempts left.
CallerShape ==
    \A c \in Callers :
        /\ key[c] = NoKey <=> step[c] = "idle"
        /\ mine[c] = None <=> step[c] \in {"idle", "build"}
        /\ step[c] = "port" => polls[c] < MaxPolls

CallersOK ==
    /\ step \in [Callers -> {"idle", "build", "probe", "settle", "poll", "port", "insert"}]
    /\ key \in [Callers -> Keys \union {NoKey}]
    /\ mine \in [Callers -> Ids \union {None}]
    /\ polls \in [Callers -> 0..MaxPolls]
    /\ CallerShape

BackendsOK ==
    /\ made \in 0..MaxStarts
    /\ kind \in [Ids -> {"native", "gcloud", "forward"}]
    /\ port \in [Ids -> Ports]
    /\ proc \in [Ids -> Procs]
    /\ bound \subseteq Ids /\ conns \subseteq bound
    /\ spared \subseteq conns
    /\ outside \subseteq Keys /\ displaced \subseteq Ids

ClocksOK == quiet \in [Ids -> 0..Cap] /\ since \in [Ids -> 0..Cap] /\ lag \in 0..MaxLag

ReaperOK ==
    /\ reaper \in {"off", "sleep", "sweep", "kill"}
    /\ seen \subseteq Ports /\ doomed \subseteq Ids

RegOK == reg \in [Keys -> Ids \union {None}]

TypeInv == CallersOK /\ BackendsOK /\ ClocksOK /\ ReaperOK /\ RegOK

\* The five parts together are the type invariant.
LEMMA TypeInvIsTyped == TypeInv => TypeOK
  BY DEF TypeInv, TypeOK, CallersOK, BackendsOK, ClocksOK, ReaperOK, RegOK

\* The clocks' range holds the values the actions give them.
LEMMA CapType == Cap \in Nat /\ MaxLag \in 0..Cap /\ 0 \in 0..Cap /\ 0 \in 0..MaxLag
  BY ConstantsAssumption DEF Cap

\* Backends are numbered from 1; None is the number of no backend.
LEMMA IdsType == Ids \subseteq Nat /\ None \notin Ids
  BY ConstantsAssumption DEF Ids, None

\* A part whose variables an action leaves alone stays: the threads.
LEMMA CallersFrame == ASSUME CallersOK, UNCHANGED callerVars PROVE CallersOK'
  BY DEF CallersOK, CallerShape, callerVars

\* A part whose variables an action leaves alone stays: TUNNELS.
LEMMA RegFrame == ASSUME RegOK, UNCHANGED reg PROVE RegOK'
  BY DEF RegOK

\* The same, of the reaper's locals.
LEMMA ReaperFrame == ASSUME ReaperOK, UNCHANGED <<reaper, seen, doomed>> PROVE ReaperOK'
  BY DEF ReaperOK

\* The same, of the clocks.
LEMMA ClocksFrame == ASSUME ClocksOK, UNCHANGED <<quiet, since, lag>> PROVE ClocksOK'
  BY DEF ClocksOK

\* The same, of the backends.
LEMMA BackendsFrame ==
  ASSUME BackendsOK, UNCHANGED <<bodyVars, proc, bound, conns, spared>>
  PROVE  BackendsOK'
  BY DEF BackendsOK, bodyVars

\* A start that returns leaves its thread as it was before.
LEMMA DoneShape ==
  ASSUME CallersOK, NEW c \in Callers, Done(c)
  PROVE  CallersOK'
<1>1. /\ step' \in [Callers -> {"idle", "build", "probe", "settle", "poll", "port", "insert"}]
      /\ key' \in [Callers -> Keys \union {NoKey}]
      /\ mine' \in [Callers -> Ids \union {None}]
  BY DEF CallersOK, Done
<1>2. polls' \in [Callers -> 0..MaxPolls]
  BY ConstantsAssumption DEF CallersOK, Done, None
<1>3. ASSUME NEW d \in Callers
      PROVE  /\ key'[d] = NoKey <=> step'[d] = "idle"
             /\ mine'[d] = None <=> step'[d] \in {"idle", "build"}
             /\ step'[d] = "port" => polls'[d] < MaxPolls
  <2>1. CASE d = c
    BY <2>1 DEF CallersOK, Done
  <2>2. CASE d # c
    BY <2>2 DEF CallersOK, CallerShape, Done
  <2> QED  BY <2>1, <2>2
<1> QED  BY <1>1, <1>2, <1>3 DEF CallersOK, CallerShape

\* A thread that has its backend keeps it as it goes on at s.
LEMMA GoOnShape ==
  ASSUME CallersOK, NEW c \in Callers,
         NEW s \in {"probe", "settle", "poll", "port", "insert"},
         step[c] \notin {"idle", "build"},
         step' = [step EXCEPT ![c] = s], UNCHANGED <<key, mine>>,
         polls' \in [Callers -> 0..MaxPolls],
         \A d \in Callers \ {c} : polls'[d] = polls[d],
         s = "port" => polls'[c] < MaxPolls
  PROVE  CallersOK'
<1>1. step' \in [Callers -> {"idle", "build", "probe", "settle", "poll", "port", "insert"}]
  BY DEF CallersOK
<1>2. ASSUME NEW d \in Callers
      PROVE  /\ key'[d] = NoKey <=> step'[d] = "idle"
             /\ mine'[d] = None <=> step'[d] \in {"idle", "build"}
             /\ step'[d] = "port" => polls'[d] < MaxPolls
  <2>1. CASE d = c
    BY <2>1 DEF CallersOK, CallerShape
  <2>2. CASE d # c
    BY <2>2 DEF CallersOK, CallerShape
  <2> QED  BY <2>1, <2>2
<1> QED  BY <1>1, <1>2 DEF CallersOK, CallerShape

\* A thread that got its backend goes on from where one has a backend.
LEMMA CreateShape ==
  ASSUME TypeInv, NEW c \in Callers, NEW e \in {"native", "gcloud", "forward"},
         NEW p \in Ports, NEW s \in {"probe", "settle", "insert"}, Create(c, e, p, s)
  PROVE  /\ CallersOK' /\ ClocksOK' /\ ReaperOK' /\ RegOK'
         /\ made' \in 0..MaxStarts
         /\ made + 1 \in Ids
         /\ kind' \in [Ids -> {"native", "gcloud", "forward"}]
         /\ port' \in [Ids -> Ports]
         /\ proc' \in [Ids -> Procs]
         /\ UNCHANGED <<conns, spared, outside, displaced>>
<1> DEFINE b == made + 1
<1>0. CallersOK /\ BackendsOK /\ ClocksOK /\ ReaperOK /\ RegOK
  BY DEF TypeInv
<1>1. b \in Ids /\ b # None
  BY IdsType DEF Create
<1>2. /\ step[c] = "build"
      /\ made' = b
      /\ kind' = [kind EXCEPT ![b] = e]
      /\ port' = [port EXCEPT ![b] = p]
      /\ proc' = [proc EXCEPT ![b] = "up"]
      /\ quiet' = [quiet EXCEPT ![b] = 0]
      /\ mine' = [mine EXCEPT ![c] = b]
      /\ step' = [step EXCEPT ![c] = s]
      /\ UNCHANGED <<reg, key, polls, conns, reaperVars, since, spared, outside, displaced>>
  BY DEF Create
<1>3. made' \in 0..MaxStarts
  BY <1>1, <1>2, ConstantsAssumption DEF Ids
<1> HIDE DEF b
<1>4. ClocksOK'
  BY <1>0, <1>1, <1>2, CapType DEF ClocksOK, reaperVars
<1>5. ReaperOK' /\ RegOK'
  BY <1>0, <1>2, ReaperFrame, RegFrame DEF reaperVars
<1>6. /\ kind' \in [Ids -> {"native", "gcloud", "forward"}]
      /\ port' \in [Ids -> Ports]
      /\ proc' \in [Ids -> Procs]
  BY <1>0, <1>1, <1>2 DEF BackendsOK, Procs
<1>7. CallersOK'
  <2>1. /\ step' \in [Callers -> {"idle", "build", "probe", "settle", "poll", "port", "insert"}]
        /\ key' \in [Callers -> Keys \union {NoKey}]
        /\ mine' \in [Callers -> Ids \union {None}]
        /\ polls' \in [Callers -> 0..MaxPolls]
    BY <1>0, <1>1, <1>2 DEF CallersOK
  <2>2. ASSUME NEW d \in Callers
        PROVE  /\ key'[d] = NoKey <=> step'[d] = "idle"
               /\ mine'[d] = None <=> step'[d] \in {"idle", "build"}
               /\ step'[d] = "port" => polls'[d] < MaxPolls
    <3>1. CASE d = c
      BY <1>0, <1>1, <1>2, <3>1 DEF CallersOK, CallerShape
    <3>2. CASE d # c
      BY <1>0, <1>2, <3>2 DEF CallersOK, CallerShape
    <3> QED  BY <3>1, <3>2
  <2> QED  BY <2>1, <2>2 DEF CallersOK, CallerShape
<1> QED  BY <1>1, <1>2, <1>3, <1>4, <1>5, <1>6, <1>7 DEF b

\* Refreshing some clocks keeps their range.
LEMMA RefreshedType ==
  ASSUME ClocksOK, NEW S
  PROVE  Refreshed(S) \in [Ids -> 0..Cap]
  BY CapType DEF ClocksOK, Refreshed

\* Restarting the time since some were handed out keeps its range.
LEMMA HandedOutType ==
  ASSUME ClocksOK, NEW S, HandedOut(S)
  PROVE  since' \in [Ids -> 0..Cap]
  BY CapType DEF ClocksOK, HandedOut

\* Stopping some backends keeps the types of all.
LEMMA StopAllType ==
  ASSUME BackendsOK, NEW S, StopAll(S), S \subseteq Ids, UNCHANGED bodyVars
  PROVE  BackendsOK'
  BY DEF BackendsOK, StopAll, Cut, bodyVars, Procs

\* So does cutting some connections, whatever their engines become.
LEMMA CutType ==
  ASSUME BackendsOK, NEW S, Cut(S), proc' \in [Ids -> Procs],
         UNCHANGED bodyVars
  PROVE  BackendsOK'
  BY DEF BackendsOK, Cut, bodyVars

\* try_wait leaves every process in one of its states.
LEMMA CollectType ==
  ASSUME BackendsOK, NEW b \in Ids, Collect(b)
  PROVE  proc' \in [Ids -> Procs]
  BY DEF BackendsOK, Collect, Procs

\* A thread past the creation of its backend has one.
LEMMA MineType ==
  ASSUME CallersOK, NEW c \in Callers, step[c] \notin {"idle", "build"}
  PROVE  mine[c] \in Ids /\ key[c] \in Keys
  BY DEF CallersOK, CallerShape

\* Reuse keeps the types.
LEMMA ReuseType ==
  ASSUME TypeInv, NEW k \in Keys, Reuse(k)
  PROVE  TypeInv'
<1> USE DEF Reuse, callerVars, bodyVars, reaperVars
<1>0. CallersOK /\ BackendsOK /\ ClocksOK /\ ReaperOK /\ RegOK
  BY DEF TypeInv
<1>1. CallersOK'
  BY <1>0, CallersFrame
<1>2. BackendsOK'
  BY <1>0, BackendsFrame
<1>3. ClocksOK'
  BY <1>0, RefreshedType, HandedOutType DEF ClocksOK
<1>4. ReaperOK'
  BY <1>0, ReaperFrame
<1>5. RegOK'
  BY <1>0, RegFrame
<1> QED  BY <1>1, <1>2, <1>3, <1>4, <1>5 DEF TypeInv

\* Begin keeps the types.
LEMMA BeginType ==
  ASSUME TypeInv, NEW c \in Callers, NEW k \in Keys, Begin(c, k)
  PROVE  TypeInv'
<1> USE DEF Begin, callerVars, bodyVars, reaperVars
<1>0. CallersOK /\ BackendsOK /\ ClocksOK /\ ReaperOK /\ RegOK
  BY DEF TypeInv
<1>1. CallersOK'
  BY <1>0, ConstantsAssumption DEF CallersOK, CallerShape
<1>2. BackendsOK'
  BY <1>0, BackendsFrame
<1>3. ClocksOK'
  BY <1>0, ClocksFrame
<1>4. ReaperOK'
  BY <1>0, ReaperFrame
<1>5. RegOK'
  BY <1>0, RegFrame
<1> QED  BY <1>1, <1>2, <1>3, <1>4, <1>5 DEF TypeInv

\* BuildFails keeps the types.
LEMMA BuildFailsType ==
  ASSUME TypeInv, NEW c \in Callers, BuildFails(c)
  PROVE  TypeInv'
<1> USE DEF BuildFails, callerVars, bodyVars, reaperVars
<1>0. CallersOK /\ BackendsOK /\ ClocksOK /\ ReaperOK /\ RegOK
  BY DEF TypeInv
<1>1. CallersOK'
  BY <1>0, DoneShape
<1>2. BackendsOK'
  BY <1>0, BackendsFrame
<1>3. ClocksOK'
  BY <1>0, ClocksFrame
<1>4. ReaperOK'
  BY <1>0, ReaperFrame
<1>5. RegOK'
  BY <1>0, RegFrame
<1> QED  BY <1>1, <1>2, <1>3, <1>4, <1>5 DEF TypeInv

\* NativeBinds keeps the types.
LEMMA NativeBindsType ==
  ASSUME TypeInv, NEW c \in Callers, NEW p \in Ports, NativeBinds(c, p)
  PROVE  TypeInv'
<1> USE DEF NativeBinds, callerVars, bodyVars, reaperVars
<1>0. CallersOK /\ BackendsOK /\ ClocksOK /\ ReaperOK /\ RegOK
  BY DEF TypeInv
<1>1. CallersOK' /\ ClocksOK' /\ ReaperOK' /\ RegOK'
  BY <1>0, CreateShape
<1>2. /\ made' \in 0..MaxStarts /\ made + 1 \in Ids
      /\ kind' \in [Ids -> {"native", "gcloud", "forward"}]
      /\ port' \in [Ids -> Ports] /\ proc' \in [Ids -> Procs]
      /\ UNCHANGED <<conns, spared, outside, displaced>>
  BY <1>0, CreateShape
<1>3. bound' = bound \union {made + 1}
  BY <1>0
<1>4. BackendsOK'
  BY <1>0, <1>2, <1>3 DEF BackendsOK
<1> QED  BY <1>1, <1>2, <1>3, <1>4 DEF TypeInv

\* ForwardUp keeps the types.
LEMMA ForwardUpType ==
  ASSUME TypeInv, NEW c \in Callers, NEW p \in Ports, ForwardUp(c, p)
  PROVE  TypeInv'
<1> USE DEF ForwardUp, callerVars, bodyVars, reaperVars
<1>0. CallersOK /\ BackendsOK /\ ClocksOK /\ ReaperOK /\ RegOK
  BY DEF TypeInv
<1>1. CallersOK' /\ ClocksOK' /\ ReaperOK' /\ RegOK'
  BY <1>0, CreateShape
<1>2. /\ made' \in 0..MaxStarts /\ made + 1 \in Ids
      /\ kind' \in [Ids -> {"native", "gcloud", "forward"}]
      /\ port' \in [Ids -> Ports] /\ proc' \in [Ids -> Procs]
      /\ UNCHANGED <<conns, spared, outside, displaced>>
  BY <1>0, CreateShape
<1>3. bound' = bound \union {made + 1}
  BY <1>0
<1>4. BackendsOK'
  BY <1>0, <1>2, <1>3 DEF BackendsOK
<1> QED  BY <1>1, <1>2, <1>3, <1>4 DEF TypeInv

\* GcloudSpawns keeps the types.
LEMMA GcloudSpawnsType ==
  ASSUME TypeInv, NEW c \in Callers, NEW p \in Ports, GcloudSpawns(c, p)
  PROVE  TypeInv'
<1> USE DEF GcloudSpawns, callerVars, bodyVars, reaperVars
<1>0. CallersOK /\ BackendsOK /\ ClocksOK /\ ReaperOK /\ RegOK
  BY DEF TypeInv
<1>1. CallersOK' /\ ClocksOK' /\ ReaperOK' /\ RegOK'
  BY <1>0, CreateShape
<1>2. /\ made' \in 0..MaxStarts /\ made + 1 \in Ids
      /\ kind' \in [Ids -> {"native", "gcloud", "forward"}]
      /\ port' \in [Ids -> Ports] /\ proc' \in [Ids -> Procs]
      /\ UNCHANGED <<conns, spared, outside, displaced>>
  BY <1>0, CreateShape
<1>3. bound' = bound
  BY <1>0
<1>4. BackendsOK'
  BY <1>0, <1>2, <1>3 DEF BackendsOK
<1> QED  BY <1>1, <1>2, <1>3, <1>4 DEF TypeInv

\* NativeProbeFails keeps the types.
LEMMA NativeProbeFailsType ==
  ASSUME TypeInv, NEW c \in Callers, NativeProbeFails(c)
  PROVE  TypeInv'
<1> USE DEF NativeProbeFails, callerVars, bodyVars, reaperVars
<1>0. CallersOK /\ BackendsOK /\ ClocksOK /\ ReaperOK /\ RegOK
  BY DEF TypeInv
<1>1. CallersOK'
  BY <1>0, DoneShape
<1>2. proc' \in [Ids -> Procs]
  BY <1>0, MineType DEF BackendsOK, Procs
<1>3. BackendsOK'
  BY <1>0, <1>2, CutType
<1>4. ClocksOK'
  BY <1>0, ClocksFrame
<1>5. ReaperOK'
  BY <1>0, ReaperFrame
<1>6. RegOK'
  BY <1>0, RegFrame
<1> QED  BY <1>1, <1>2, <1>3, <1>4, <1>5, <1>6 DEF TypeInv

\* NativeReady keeps the types.
LEMMA NativeReadyType ==
  ASSUME TypeInv, NEW c \in Callers, NativeReady(c)
  PROVE  TypeInv'
<1> USE DEF NativeReady, callerVars, bodyVars, reaperVars
<1>0. CallersOK /\ BackendsOK /\ ClocksOK /\ ReaperOK /\ RegOK
  BY DEF TypeInv
<1>1. CallersOK'
  BY <1>0, GoOnShape DEF CallersOK
<1>2. BackendsOK'
  BY <1>0, BackendsFrame
<1>3. ClocksOK'
  BY <1>0, RefreshedType DEF ClocksOK
<1>4. ReaperOK'
  BY <1>0, ReaperFrame
<1>5. RegOK'
  BY <1>0, RegFrame
<1> QED  BY <1>1, <1>2, <1>3, <1>4, <1>5 DEF TypeInv

\* GcloudSettles keeps the types.
LEMMA GcloudSettlesType ==
  ASSUME TypeInv, NEW c \in Callers, GcloudSettles(c)
  PROVE  TypeInv'
<1> USE DEF GcloudSettles, callerVars, bodyVars, reaperVars
<1>0. CallersOK /\ BackendsOK /\ ClocksOK /\ ReaperOK /\ RegOK
  BY DEF TypeInv
<1>1. CallersOK'
  BY <1>0, DoneShape DEF CallersOK, CallerShape
<1>2. proc' \in [Ids -> Procs]
  BY <1>0, MineType, CollectType
<1>3. BackendsOK'
  BY <1>0, <1>2 DEF BackendsOK
<1>4. ClocksOK'
  BY <1>0, ClocksFrame
<1>5. ReaperOK'
  BY <1>0, ReaperFrame
<1>6. RegOK'
  BY <1>0, RegFrame
<1> QED  BY <1>1, <1>2, <1>3, <1>4, <1>5, <1>6 DEF TypeInv

\* PollEngine keeps the types.
LEMMA PollEngineType ==
  ASSUME TypeInv, NEW c \in Callers, PollEngine(c)
  PROVE  TypeInv'
<1> USE DEF PollEngine, callerVars, bodyVars, reaperVars
<1>0. CallersOK /\ BackendsOK /\ ClocksOK /\ ReaperOK /\ RegOK
  BY DEF TypeInv
<1>1. CallersOK'
  BY <1>0, DoneShape DEF CallersOK, CallerShape
<1>2. BackendsOK'
  BY <1>0, MineType, StopAllType, BackendsFrame
<1>3. ClocksOK'
  BY <1>0, ClocksFrame
<1>4. ReaperOK'
  BY <1>0, ReaperFrame
<1>5. RegOK'
  BY <1>0, RegFrame
<1> QED  BY <1>1, <1>2, <1>3, <1>4, <1>5 DEF TypeInv

\* PollPort keeps the types.
LEMMA PollPortType ==
  ASSUME TypeInv, NEW c \in Callers, PollPort(c)
  PROVE  TypeInv'
<1> USE DEF PollPort, callerVars, bodyVars, reaperVars
<1>0. CallersOK /\ BackendsOK /\ ClocksOK /\ ReaperOK /\ RegOK
  BY DEF TypeInv
<1>1. polls' \in [Callers -> 0..MaxPolls] /\ \A d \in Callers \ {c} : polls'[d] = polls[d]
  BY <1>0, ConstantsAssumption DEF CallersOK, CallerShape
<1>2. \E s \in {"poll", "insert"} : step' = [step EXCEPT ![c] = s] /\ UNCHANGED <<key, mine>>
  BY <1>0
<1>3. CallersOK'
  BY <1>0, <1>1, <1>2, GoOnShape
<1>4. BackendsOK'
  BY <1>0, BackendsFrame
<1>5. ClocksOK'
  BY <1>0, ClocksFrame
<1>6. ReaperOK'
  BY <1>0, ReaperFrame
<1>7. RegOK'
  BY <1>0, RegFrame
<1> QED  BY <1>1, <1>2, <1>3, <1>4, <1>5, <1>6, <1>7 DEF TypeInv

\* Insert keeps the types.
LEMMA InsertType ==
  ASSUME TypeInv, NEW c \in Callers, Insert(c)
  PROVE  TypeInv'
<1> USE DEF Insert, callerVars, bodyVars, reaperVars
<1>0. CallersOK /\ BackendsOK /\ ClocksOK /\ ReaperOK /\ RegOK
  BY DEF TypeInv
<1>1. CallersOK'
  BY <1>0, DoneShape
<1>2. proc' \in [Ids -> Procs]
  BY <1>0 DEF BackendsOK, Procs
<1>3. BackendsOK'
  <2>1. key[c] \in Keys
    BY <1>0, MineType
  <2>2. outside' \subseteq Keys /\ displaced' \subseteq Ids
    BY <1>0, <2>1 DEF BackendsOK
  <2> QED  BY <1>0, <1>2, <2>2 DEF BackendsOK
<1>4. ClocksOK'
  BY <1>0, HandedOutType DEF ClocksOK
<1>5. ReaperOK'
  BY <1>0 DEF ReaperOK
<1>6. RegOK'
  BY <1>0, MineType DEF RegOK
<1> QED  BY <1>1, <1>2, <1>3, <1>4, <1>5, <1>6 DEF TypeInv

\* Stop keeps the types.
LEMMA StopType ==
  ASSUME TypeInv, NEW k \in Keys, Stop(k)
  PROVE  TypeInv'
<1> USE DEF Stop, callerVars, bodyVars, reaperVars
<1>0. CallersOK /\ BackendsOK /\ ClocksOK /\ ReaperOK /\ RegOK
  BY DEF TypeInv
<1>1. CallersOK'
  BY <1>0, CallersFrame
<1>2. reg[k] \in Ids
  BY <1>0 DEF RegOK
<1>3. BackendsOK'
  BY <1>0, <1>2, StopAllType
<1>4. ClocksOK'
  BY <1>0, ClocksFrame
<1>5. ReaperOK'
  BY <1>0, ReaperFrame
<1>6. RegOK'
  BY <1>0 DEF RegOK
<1> QED  BY <1>1, <1>2, <1>3, <1>4, <1>5, <1>6 DEF TypeInv

\* Cleanup keeps the types.
LEMMA CleanupType ==
  ASSUME TypeInv, Cleanup
  PROVE  TypeInv'
<1> USE DEF Cleanup, callerVars, bodyVars, reaperVars
<1>0. CallersOK /\ BackendsOK /\ ClocksOK /\ ReaperOK /\ RegOK
  BY DEF TypeInv
<1>1. CallersOK'
  BY <1>0, CallersFrame
<1>2. Registered \subseteq Ids
  BY <1>0 DEF RegOK, Registered
<1>3. BackendsOK'
  BY <1>0, <1>2, StopAllType
<1>4. ClocksOK'
  BY <1>0, ClocksFrame
<1>5. ReaperOK'
  BY <1>0, ReaperFrame
<1>6. RegOK'
  BY <1>0 DEF RegOK
<1> QED  BY <1>1, <1>2, <1>3, <1>4, <1>5, <1>6 DEF TypeInv

\* CheckHealth keeps the types.
LEMMA CheckHealthType ==
  ASSUME TypeInv, NEW k \in Keys, CheckHealth(k)
  PROVE  TypeInv'
<1> USE DEF CheckHealth, callerVars, bodyVars, reaperVars
<1>0. CallersOK /\ BackendsOK /\ ClocksOK /\ ReaperOK /\ RegOK
  BY DEF TypeInv
<1>1. CallersOK'
  BY <1>0, CallersFrame
<1>2. reg[k] \in Ids
  BY <1>0 DEF RegOK
<1>3. proc' \in [Ids -> Procs]
  BY <1>0, <1>2, CollectType
<1>4. BackendsOK'
  BY <1>0, <1>3 DEF BackendsOK
<1>5. ClocksOK'
  BY <1>0, ClocksFrame
<1>6. ReaperOK'
  BY <1>0, ReaperFrame
<1>7. RegOK'
  BY <1>0, RegFrame
<1> QED  BY <1>1, <1>2, <1>3, <1>4, <1>5, <1>6, <1>7 DEF TypeInv

\* Touch keeps the types.
LEMMA TouchType ==
  ASSUME TypeInv, NEW p \in Ports, Touch(p)
  PROVE  TypeInv'
<1> USE DEF Touch, callerVars, bodyVars, reaperVars
<1>0. CallersOK /\ BackendsOK /\ ClocksOK /\ ReaperOK /\ RegOK
  BY DEF TypeInv
<1>1. CallersOK'
  BY <1>0, CallersFrame
<1>2. BackendsOK'
  BY <1>0, BackendsFrame
<1>3. ClocksOK'
  BY <1>0, RefreshedType, HandedOutType DEF ClocksOK
<1>4. ReaperOK'
  BY <1>0, ReaperFrame
<1>5. RegOK'
  BY <1>0, RegFrame
<1> QED  BY <1>1, <1>2, <1>3, <1>4, <1>5 DEF TypeInv

\* ReaperWakes keeps the types.
LEMMA ReaperWakesType ==
  ASSUME TypeInv, ReaperWakes
  PROVE  TypeInv'
<1> USE DEF ReaperWakes, callerVars, bodyVars, reaperVars
<1>0. CallersOK /\ BackendsOK /\ ClocksOK /\ ReaperOK /\ RegOK
  BY DEF TypeInv
<1>1. CallersOK'
  BY <1>0, CallersFrame
<1>2. BackendsOK'
  BY <1>0 DEF BackendsOK
<1>3. ClocksOK'
  BY <1>0, CapType DEF ClocksOK
<1>4. ReaperOK'
  BY <1>0 DEF ReaperOK, BackendsOK
<1>5. RegOK'
  BY <1>0, RegFrame
<1> QED  BY <1>1, <1>2, <1>3, <1>4, <1>5 DEF TypeInv

\* Sweep keeps the types.
LEMMA SweepType ==
  ASSUME TypeInv, Sweep
  PROVE  TypeInv'
<1> USE DEF Sweep, callerVars, bodyVars, reaperVars
<1>0. CallersOK /\ BackendsOK /\ ClocksOK /\ ReaperOK /\ RegOK
  BY DEF TypeInv
<1>1. CallersOK'
  BY <1>0, CallersFrame
<1>2. BackendsOK'
  BY <1>0 DEF BackendsOK
<1>3. lag \in 0..Cap
  BY <1>0, CapType, ConstantsAssumption DEF ClocksOK, Cap
<1>4. ClocksOK'
  BY <1>0, <1>3, CapType DEF ClocksOK
<1>5. Registered \subseteq Ids
  BY <1>0 DEF RegOK, Registered
<1>6. ReaperOK'
  BY <1>0, <1>5 DEF ReaperOK
<1>7. RegOK'
  BY <1>0 DEF RegOK
<1> QED  BY <1>1, <1>2, <1>3, <1>4, <1>5, <1>6, <1>7 DEF TypeInv

\* ReaperStops keeps the types.
LEMMA ReaperStopsType ==
  ASSUME TypeInv, NEW b \in Ids, ReaperStops(b)
  PROVE  TypeInv'
<1> USE DEF ReaperStops, callerVars, bodyVars, reaperVars
<1>0. CallersOK /\ BackendsOK /\ ClocksOK /\ ReaperOK /\ RegOK
  BY DEF TypeInv
<1>1. CallersOK'
  BY <1>0, CallersFrame
<1>2. BackendsOK'
  BY <1>0, StopAllType
<1>3. ClocksOK'
  BY <1>0, ClocksFrame
<1>4. ReaperOK'
  BY <1>0 DEF ReaperOK
<1>5. RegOK'
  BY <1>0, RegFrame
<1> QED  BY <1>1, <1>2, <1>3, <1>4, <1>5 DEF TypeInv

\* EngineExits keeps the types.
LEMMA EngineExitsType ==
  ASSUME TypeInv, NEW b \in Ids, EngineExits(b)
  PROVE  TypeInv'
<1> USE DEF EngineExits, callerVars, bodyVars, reaperVars
<1>0. CallersOK /\ BackendsOK /\ ClocksOK /\ ReaperOK /\ RegOK
  BY DEF TypeInv
<1>1. CallersOK'
  BY <1>0, CallersFrame
<1>2. proc' \in [Ids -> Procs]
  BY <1>0 DEF BackendsOK, Procs
<1>3. BackendsOK'
  BY <1>0, <1>2, CutType
<1>4. ClocksOK'
  BY <1>0, ClocksFrame
<1>5. ReaperOK'
  BY <1>0, ReaperFrame
<1>6. RegOK'
  BY <1>0, RegFrame
<1> QED  BY <1>1, <1>2, <1>3, <1>4, <1>5, <1>6 DEF TypeInv

\* GcloudBinds keeps the types.
LEMMA GcloudBindsType ==
  ASSUME TypeInv, NEW b \in Ids, GcloudBinds(b)
  PROVE  TypeInv'
<1> USE DEF GcloudBinds, callerVars, bodyVars, reaperVars
<1>0. CallersOK /\ BackendsOK /\ ClocksOK /\ ReaperOK /\ RegOK
  BY DEF TypeInv
<1>1. CallersOK'
  BY <1>0, CallersFrame
<1>2. BackendsOK'
  BY <1>0 DEF BackendsOK
<1>3. ClocksOK'
  BY <1>0, ClocksFrame
<1>4. ReaperOK'
  BY <1>0, ReaperFrame
<1>5. RegOK'
  BY <1>0, RegFrame
<1> QED  BY <1>1, <1>2, <1>3, <1>4, <1>5 DEF TypeInv

\* LoopEnds keeps the types.
LEMMA LoopEndsType ==
  ASSUME TypeInv, NEW b \in Ids, LoopEnds(b)
  PROVE  TypeInv'
<1> USE DEF LoopEnds, callerVars, bodyVars, reaperVars
<1>0. CallersOK /\ BackendsOK /\ ClocksOK /\ ReaperOK /\ RegOK
  BY DEF TypeInv
<1>1. CallersOK'
  BY <1>0, CallersFrame
<1>2. proc' \in [Ids -> Procs]
  BY <1>0 DEF BackendsOK, Procs
<1>3. BackendsOK'
  BY <1>0, <1>2, CutType
<1>4. ClocksOK'
  BY <1>0, ClocksFrame
<1>5. ReaperOK'
  BY <1>0, ReaperFrame
<1>6. RegOK'
  BY <1>0, RegFrame
<1> QED  BY <1>1, <1>2, <1>3, <1>4, <1>5, <1>6 DEF TypeInv

\* ClientConnects keeps the types.
LEMMA ClientConnectsType ==
  ASSUME TypeInv, NEW b \in Ids, ClientConnects(b)
  PROVE  TypeInv'
<1> USE DEF ClientConnects, callerVars, bodyVars, reaperVars
<1>0. CallersOK /\ BackendsOK /\ ClocksOK /\ ReaperOK /\ RegOK
  BY DEF TypeInv
<1>1. CallersOK'
  BY <1>0, CallersFrame
<1>2. BackendsOK'
  BY <1>0 DEF BackendsOK
<1>3. ClocksOK'
  BY <1>0, ClocksFrame
<1>4. ReaperOK'
  BY <1>0, ReaperFrame
<1>5. RegOK'
  BY <1>0, RegFrame
<1> QED  BY <1>1, <1>2, <1>3, <1>4, <1>5 DEF TypeInv

\* ClientCloses keeps the types.
LEMMA ClientClosesType ==
  ASSUME TypeInv, NEW b \in Ids, ClientCloses(b)
  PROVE  TypeInv'
<1> USE DEF ClientCloses, callerVars, bodyVars, reaperVars
<1>0. CallersOK /\ BackendsOK /\ ClocksOK /\ ReaperOK /\ RegOK
  BY DEF TypeInv
<1>1. CallersOK'
  BY <1>0, CallersFrame
<1>2. BackendsOK'
  BY <1>0 DEF BackendsOK
<1>3. ClocksOK'
  BY <1>0, ClocksFrame
<1>4. ReaperOK'
  BY <1>0, ReaperFrame
<1>5. RegOK'
  BY <1>0, RegFrame
<1> QED  BY <1>1, <1>2, <1>3, <1>4, <1>5 DEF TypeInv

\* Tick keeps the types.
LEMMA TickType ==
  ASSUME TypeInv, Tick
  PROVE  TypeInv'
<1> USE DEF Tick, callerVars, bodyVars, reaperVars
<1>0. CallersOK /\ BackendsOK /\ ClocksOK /\ ReaperOK /\ RegOK
  BY DEF TypeInv
<1>1. CallersOK'
  BY <1>0, CallersFrame
<1>2. BackendsOK'
  BY <1>0, BackendsFrame
<1>3. \A n \in 0..Cap : Older(n) \in 0..Cap
  BY <1>0, CapType DEF Older
<1>4. lag' \in 0..MaxLag
  BY <1>0, ConstantsAssumption DEF ClocksOK
<1>5. ClocksOK'
  BY <1>0, <1>3, <1>4, CapType DEF ClocksOK
<1>6. ReaperOK'
  BY <1>0, ReaperFrame
<1>7. RegOK'
  BY <1>0, RegFrame
<1> QED  BY <1>1, <1>2, <1>3, <1>4, <1>5, <1>6, <1>7 DEF TypeInv

-----------------------------------------------------------------------------
(* TypeCorrect *)

\* A start of the program has the types.
LEMMA InitType == Init => TypeInv
<1> SUFFICES ASSUME Init PROVE TypeInv
  OBVIOUS
<1>1. CallersOK
  BY ConstantsAssumption DEF Init, CallersOK, CallerShape, None
<1>2. BackendsOK
  BY ConstantsAssumption DEF Init, BackendsOK, Procs, None
<1>3. ClocksOK /\ ReaperOK /\ RegOK
  BY CapType DEF Init, ClocksOK, ReaperOK, RegOK
<1> QED  BY <1>1, <1>2, <1>3 DEF TypeInv

\* Every step keeps them.
LEMMA StepType == TypeInv /\ [Next]_vars => TypeInv'
<1> SUFFICES ASSUME TypeInv, [Next]_vars PROVE TypeInv'
  OBVIOUS
<1>1. ASSUME NEW k \in Keys, Reuse(k)
      PROVE  TypeInv'
  BY <1>1, ReuseType
<1>2. ASSUME NEW k \in Keys, Stop(k)
      PROVE  TypeInv'
  BY <1>2, StopType
<1>3. ASSUME NEW k \in Keys, CheckHealth(k)
      PROVE  TypeInv'
  BY <1>3, CheckHealthType
<1>4. ASSUME NEW c \in Callers, NEW k \in Keys, Begin(c, k)
      PROVE  TypeInv'
  BY <1>4, BeginType
<1>5. ASSUME Cleanup PROVE TypeInv'
  BY <1>5, CleanupType
<1>6. ASSUME NEW p \in Ports, Touch(p)
      PROVE  TypeInv'
  BY <1>6, TouchType
<1>7. ASSUME NEW c \in Callers, BuildFails(c)
      PROVE  TypeInv'
  BY <1>7, BuildFailsType
<1>8. ASSUME NEW c \in Callers, NEW p \in Ports, NativeBinds(c, p)
      PROVE  TypeInv'
  BY <1>8, NativeBindsType
<1>9. ASSUME NEW c \in Callers, NEW p \in Ports, ForwardUp(c, p)
      PROVE  TypeInv'
  BY <1>9, ForwardUpType
<1>10. ASSUME NEW c \in Callers, NEW p \in Ports, GcloudSpawns(c, p)
      PROVE  TypeInv'
  BY <1>10, GcloudSpawnsType
<1>11. ASSUME NEW c \in Callers, NativeProbeFails(c)
      PROVE  TypeInv'
  BY <1>11, NativeProbeFailsType
<1>12. ASSUME NEW c \in Callers, NativeReady(c)
      PROVE  TypeInv'
  BY <1>12, NativeReadyType
<1>13. ASSUME NEW c \in Callers, GcloudSettles(c)
      PROVE  TypeInv'
  BY <1>13, GcloudSettlesType
<1>14. ASSUME NEW c \in Callers, PollEngine(c)
      PROVE  TypeInv'
  BY <1>14, PollEngineType
<1>15. ASSUME NEW c \in Callers, PollPort(c)
      PROVE  TypeInv'
  BY <1>15, PollPortType
<1>16. ASSUME NEW c \in Callers, Insert(c)
      PROVE  TypeInv'
  BY <1>16, InsertType
<1>17. ASSUME ReaperWakes PROVE TypeInv'
  BY <1>17, ReaperWakesType
<1>18. ASSUME Sweep PROVE TypeInv'
  BY <1>18, SweepType
<1>19. ASSUME NEW b \in Ids, ReaperStops(b)
      PROVE  TypeInv'
  BY <1>19, ReaperStopsType
<1>20. ASSUME NEW b \in Ids, LoopEnds(b)
      PROVE  TypeInv'
  BY <1>20, LoopEndsType
<1>21. ASSUME NEW b \in Ids, EngineExits(b)
      PROVE  TypeInv'
  BY <1>21, EngineExitsType
<1>22. ASSUME NEW b \in Ids, GcloudBinds(b)
      PROVE  TypeInv'
  BY <1>22, GcloudBindsType
<1>23. ASSUME NEW b \in Ids, ClientConnects(b)
      PROVE  TypeInv'
  BY <1>23, ClientConnectsType
<1>24. ASSUME NEW b \in Ids, ClientCloses(b)
      PROVE  TypeInv'
  BY <1>24, ClientClosesType
<1>25. ASSUME Tick PROVE TypeInv'
  BY <1>25, TickType
<1>26. CASE UNCHANGED vars
  BY <1>26 DEF vars, callerVars, bodyVars, reaperVars, TypeInv, CallersOK,
     CallerShape, BackendsOK, ClocksOK, ReaperOK, RegOK
<1> QED
  BY <1>1, <1>2, <1>3, <1>4, <1>5, <1>6, <1>7, <1>8, <1>9, <1>10, <1>11, <1>12, <1>13,
     <1>14, <1>15, <1>16, <1>17, <1>18, <1>19, <1>20, <1>21, <1>22, <1>23, <1>24, <1>25, <1>26
     DEF Next, Starting, Call, Reaping, Environment

\* In every behaviour, for any number of keys, threads, ports and backends.
THEOREM TypeInvariant == Spec => []TypeInv
  BY InitType, StepType, PTL DEF Spec

\* The registry, the threads inside a start, the backends and the reaper keep
\* their types.
THEOREM TypeCorrect == Spec => []TypeOK
  BY TypeInvariant, TypeInvIsTyped, PTL

-----------------------------------------------------------------------------
(* Who holds which backend *)

\* Backends are in the registry, in a start's hands, with the reaper or bound
\* to a port only once created.
Created ==
    /\ \A k \in Keys : reg[k] <= made
    /\ \A c \in Callers : mine[c] <= made
    /\ \A b \in Ids : b \in bound \union doomed \/ proc[b] # "none" => b <= made

\* A backend is in one place: one start's hands, or under one key.
Apart ==
    /\ \A c, d \in Callers : mine[c] = mine[d] /\ mine[c] # None => c = d
    /\ \A k, l \in Keys : reg[k] = reg[l] /\ reg[k] # None => k = l
    /\ \A c \in Callers, k \in Keys : mine[c] = reg[k] => mine[c] = None

Shape == TypeInv /\ Created /\ Apart

\* What all steps do but those that create a backend or insert one: they may
\* take backends away from their places, and give none a new one.
Calm ==
    /\ made' = made
    /\ \A k \in Keys : reg'[k] \in {reg[k], None}
    /\ \A c \in Callers : mine'[c] \in {mine[c], None}
    /\ \A b \in Ids : b \in bound' \union doomed' \/ proc'[b] # "none" => b <= made

\* Calm steps keep every backend in one place.
LEMMA CalmShape ==
  ASSUME Shape, TypeInv', Calm
  PROVE  Shape'
<1>1. Created'
  <2>1. made \in Nat /\ Created
    BY ConstantsAssumption DEF Shape, TypeInv, BackendsOK
  <2>2. ASSUME NEW k \in Keys PROVE reg'[k] <= made'
    BY <2>1 DEF Calm, Created, None
  <2>3. ASSUME NEW c \in Callers PROVE mine'[c] <= made'
    BY <2>1 DEF Calm, Created, None
  <2> QED  BY <2>2, <2>3 DEF Calm, Created
<1>2. Apart'
  <2>1. \A k \in Keys : reg'[k] # None => reg'[k] = reg[k]
    BY DEF Calm
  <2>2. \A c \in Callers : mine'[c] # None => mine'[c] = mine[c]
    BY DEF Calm
  <2> QED  BY <2>1, <2>2 DEF Shape, Apart
<1> QED  BY <1>1, <1>2 DEF Shape

\* A created backend is new, and in the hands of its start alone.
LEMMA CreateStepShape ==
  ASSUME Shape, TypeInv', NEW c \in Callers, NEW e, NEW p, NEW s, Create(c, e, p, s),
         bound' \subseteq bound \union {made + 1}
  PROVE  Shape'
<1> DEFINE b == made + 1
<1>0. /\ TypeInv /\ Created /\ Apart
      /\ made \in Nat /\ made' = b /\ b \in Ids /\ b # None
      /\ UNCHANGED <<reg, doomed>>
      /\ mine' = [mine EXCEPT ![c] = b] /\ mine \in [Callers -> Ids \union {None}]
      /\ proc' = [proc EXCEPT ![b] = "up"] /\ proc \in [Ids -> Procs]
      /\ reg \in [Keys -> Ids \union {None}]
  BY ConstantsAssumption, IdsType DEF Shape, TypeInv, BackendsOK, CallersOK, RegOK, Create, reaperVars
<1>1. /\ \A k \in Keys : reg[k] \in Nat /\ reg[k] < b
      /\ \A d \in Callers : mine[d] \in Nat /\ mine[d] < b
  <2>0. Ids \union {None} \subseteq Nat
    BY IdsType DEF None
  <2>1. \A k \in Keys : reg[k] \in Nat /\ reg[k] <= made
    <3>1. \A k \in Keys : reg[k] \in Ids \union {None}
      BY <1>0
    <3> QED  BY <1>0, <2>0, <3>1 DEF Created
  <2>2. \A d \in Callers : mine[d] \in Nat /\ mine[d] <= made
    <3>1. \A d \in Callers : mine[d] \in Ids \union {None}
      BY <1>0
    <3> QED  BY <1>0, <2>0, <3>1 DEF Created
  <2> QED  BY <1>0, <2>1, <2>2
<1>2. Created'
  <2>1. \A k \in Keys : reg'[k] <= made'
    BY <1>0, <1>1
  <2>2. ASSUME NEW d \in Callers PROVE mine'[d] <= made'
    <3>1. CASE d = c
      BY <1>0, <3>1
    <3>2. CASE d # c
      BY <1>0, <1>1, <3>2
    <3> QED  BY <3>1, <3>2
  <2>3. ASSUME NEW x \in Ids, x \in bound' \union doomed' \/ proc'[x] # "none"
        PROVE  x <= made'
    <3>1. CASE x = b
      BY <1>0, <3>1
    <3>2. CASE x # b
      BY <1>0, <2>3, <3>2, IdsType DEF Created
    <3> QED  BY <3>1, <3>2
  <2> QED  BY <2>1, <2>2, <2>3 DEF Created
<1>3. Apart'
  <2> HIDE DEF b
  <2>1. \A d \in Callers : mine[d] # b
    BY <1>0, <1>1, IdsType DEF None
  <2>2. \A k \in Keys : reg[k] # b
    BY <1>0, <1>1, IdsType DEF None
  <2>3. \A d \in Callers : mine'[d] = IF d = c THEN b ELSE mine[d]
    BY <1>0
  <2> QED  BY <1>0, <2>1, <2>2, <2>3 DEF Apart
<1> QED  BY <1>2, <1>3 DEF Shape

\* What an insertion does to the registry and to the thread.
LEMMA InsertEffect ==
  ASSUME TypeInv, NEW c \in Callers, Insert(c)
  PROVE  /\ key[c] \in Keys /\ mine[c] \in Ids
         /\ \A k \in Keys : reg'[k] = IF k = key[c] THEN mine[c] ELSE reg[k]
         /\ \A d \in Callers : mine'[d] = IF d = c THEN None ELSE mine[d]
         /\ \A d \in Callers : key'[d] = IF d = c THEN NoKey ELSE key[d]
<1>1. CallersOK /\ RegOK
  BY DEF TypeInv
<1>2. key[c] \in Keys /\ mine[c] \in Ids
  BY <1>1, MineType DEF Insert
<1> QED  BY <1>1, <1>2 DEF Insert, Done, CallersOK, RegOK

\* An inserted backend moves from its start's hands to its key.
LEMMA InsertShape ==
  ASSUME Shape, TypeInv', NEW c \in Callers, Insert(c)
  PROVE  Shape'
<1>0. TypeInv /\ Created /\ Apart
  BY DEF Shape
<1>1. /\ key[c] \in Keys /\ mine[c] \in Ids /\ mine[c] # None
      /\ \A k \in Keys : reg'[k] = IF k = key[c] THEN mine[c] ELSE reg[k]
      /\ \A d \in Callers : mine'[d] = IF d = c THEN None ELSE mine[d]
  BY <1>0, InsertEffect, IdsType
<1>2. Created'
  <2>1. made \in Nat /\ UNCHANGED <<made, bound, doomed>>
    BY <1>0, ConstantsAssumption DEF Insert, TypeInv, BackendsOK, bodyVars
  <2>2. \A b \in Ids : proc'[b] # "none" => b <= made
    <3>1. ASSUME NEW b \in Ids, proc'[b] # "none" PROVE b <= made
      <4>1. CASE b = reg[key[c]]
        BY <1>0, <1>1, <4>1 DEF Created
      <4>2. CASE b # reg[key[c]]
        BY <1>0, <3>1, <4>2 DEF Created, Insert
      <4> QED  BY <4>1, <4>2
    <3> QED  BY <3>1
  <2> QED  BY <1>0, <1>1, <2>1, <2>2 DEF Created, None
<1>3. Apart'
  BY <1>0, <1>1 DEF Apart
<1> QED  BY <1>2, <1>3 DEF Shape

\* What a step that returns from a start does to the thread.
LEMMA DoneEffect ==
  ASSUME CallersOK, NEW c \in Callers, Done(c)
  PROVE  /\ \A d \in Callers : mine'[d] = IF d = c THEN None ELSE mine[d]
         /\ \A d \in Callers : key'[d] = IF d = c THEN NoKey ELSE key[d]
  BY DEF CallersOK, Done

\* Stopping created backends is calm.
LEMMA StopAllCalm ==
  ASSUME Shape, NEW S, StopAll(S), \A b \in S : b <= made
  PROVE  \A b \in Ids : b \in bound' \/ proc'[b] # "none" => b <= made
  BY DEF StopAll, Cut, Shape, Created

\* Every step is calm, an insertion or the creation of a backend.
LEMMA StepCalm ==
  ASSUME Shape, [Next]_vars
  PROVE  \/ Calm
         \/ \E c \in Callers : Insert(c)
         \/ \E c \in Callers, p \in Ports :
               \E e \in {"native", "forward", "gcloud"}, s \in {"probe", "insert", "settle"} :
                  Create(c, e, p, s) /\ bound' \subseteq bound \union {made + 1}
<1> DEFINE G == \/ Calm
                \/ \E c \in Callers : Insert(c)
                \/ \E c \in Callers, p \in Ports :
                      \E e \in {"native", "forward", "gcloud"}, s \in {"probe", "insert", "settle"} :
                         Create(c, e, p, s) /\ bound' \subseteq bound \union {made + 1}
<1> SUFFICES G
  OBVIOUS
<1>0. TypeInv /\ Created /\ CallersOK /\ RegOK /\ BackendsOK
  BY DEF Shape, TypeInv
<1>1. ASSUME NEW k \in Keys, Reuse(k)
      PROVE  G
  BY <1>1, <1>0 DEF Reuse, Calm, Created, callerVars, bodyVars, reaperVars
<1>2. ASSUME NEW k \in Keys, Stop(k)
      PROVE  G
  BY <1>2, <1>0, StopAllCalm DEF Stop, Calm, Created, RegOK, callerVars, bodyVars, reaperVars
<1>3. ASSUME NEW k \in Keys, CheckHealth(k)
      PROVE  G
  BY <1>3, <1>0 DEF CheckHealth, Collect, Collectable, Calm, Created, BackendsOK, RegOK, callerVars, bodyVars, reaperVars
<1>4. ASSUME NEW c \in Callers, NEW k \in Keys, Begin(c, k)
      PROVE  G
  BY <1>4, <1>0 DEF Begin, Calm, Created, callerVars, bodyVars, reaperVars
<1>5. ASSUME Cleanup PROVE G
  BY <1>5, <1>0, StopAllCalm DEF Cleanup, Calm, Created, Registered, RegOK, callerVars, bodyVars, reaperVars
<1>6. ASSUME NEW p \in Ports, Touch(p)
      PROVE  G
  BY <1>6, <1>0 DEF Touch, Calm, Created, callerVars, bodyVars, reaperVars
<1>7. ASSUME NEW c \in Callers, BuildFails(c)
      PROVE  G
  BY <1>7, <1>0, DoneEffect DEF BuildFails, Calm, Created, callerVars, bodyVars, reaperVars
<1>8. ASSUME NEW c \in Callers, NEW p \in Ports, NativeBinds(c, p)
      PROVE  G
  BY <1>8, <1>0 DEF NativeBinds
<1>9. ASSUME NEW c \in Callers, NEW p \in Ports, ForwardUp(c, p)
      PROVE  G
  BY <1>9, <1>0 DEF ForwardUp
<1>10. ASSUME NEW c \in Callers, NEW p \in Ports, GcloudSpawns(c, p)
      PROVE  G
  BY <1>10, <1>0 DEF GcloudSpawns
<1>11. ASSUME NEW c \in Callers, NativeProbeFails(c)
      PROVE  G
  BY <1>11, <1>0, DoneEffect, MineType DEF NativeProbeFails, Cut, Calm, Created, BackendsOK, callerVars, bodyVars, reaperVars
<1>12. ASSUME NEW c \in Callers, NativeReady(c)
      PROVE  G
  BY <1>12, <1>0 DEF NativeReady, Calm, Created, callerVars, bodyVars, reaperVars
<1>13. ASSUME NEW c \in Callers, GcloudSettles(c)
      PROVE  G
  BY <1>13, <1>0, DoneEffect, MineType DEF GcloudSettles, Collect, Collectable, Calm, Created, BackendsOK, callerVars, bodyVars, reaperVars
<1>14. ASSUME NEW c \in Callers, PollEngine(c)
      PROVE  G
  BY <1>14, <1>0, DoneEffect, StopAllCalm DEF PollEngine, Calm, Created, callerVars, bodyVars, reaperVars
<1>15. ASSUME NEW c \in Callers, PollPort(c)
      PROVE  G
  BY <1>15, <1>0 DEF PollPort, Calm, Created, callerVars, bodyVars, reaperVars
<1>16. ASSUME NEW c \in Callers, Insert(c)
      PROVE  G
  BY <1>16
<1>17. ASSUME ReaperWakes PROVE G
  BY <1>17, <1>0 DEF ReaperWakes, Calm, Created, callerVars, bodyVars, reaperVars
<1>18. ASSUME Sweep PROVE G
  BY <1>18, <1>0 DEF Sweep, Registered, Calm, Created, RegOK, callerVars, bodyVars, reaperVars
<1>19. ASSUME NEW b \in Ids, ReaperStops(b)
      PROVE  G
  BY <1>19, <1>0, StopAllCalm DEF ReaperStops, Calm, Created, callerVars, bodyVars, reaperVars
<1>20. ASSUME NEW b \in Ids, LoopEnds(b)
      PROVE  G
  BY <1>20, <1>0 DEF LoopEnds, Cut, Calm, Created, BackendsOK, callerVars, bodyVars, reaperVars
<1>21. ASSUME NEW b \in Ids, EngineExits(b)
      PROVE  G
  BY <1>21, <1>0 DEF EngineExits, Cut, Calm, Created, BackendsOK, callerVars, bodyVars, reaperVars
<1>22. ASSUME NEW b \in Ids, GcloudBinds(b)
      PROVE  G
  BY <1>22, <1>0 DEF GcloudBinds, Calm, Created, BackendsOK, callerVars, bodyVars, reaperVars
<1>23. ASSUME NEW b \in Ids, ClientConnects(b)
      PROVE  G
  BY <1>23, <1>0 DEF ClientConnects, Calm, Created, callerVars, bodyVars, reaperVars
<1>24. ASSUME NEW b \in Ids, ClientCloses(b)
      PROVE  G
  BY <1>24, <1>0 DEF ClientCloses, Calm, Created, callerVars, bodyVars, reaperVars
<1>25. ASSUME Tick PROVE G
  BY <1>25, <1>0 DEF Tick, Calm, Created, callerVars, bodyVars, reaperVars
<1>26. CASE UNCHANGED vars
  BY <1>26, <1>0 DEF vars, Calm, Created, callerVars, bodyVars, reaperVars
<1> QED
  BY <1>1, <1>2, <1>3, <1>4, <1>5, <1>6, <1>7, <1>8, <1>9, <1>10, <1>11, <1>12, <1>13,
     <1>14, <1>15, <1>16, <1>17, <1>18, <1>19, <1>20, <1>21, <1>22, <1>23, <1>24, <1>25, <1>26
     DEF Next, Starting, Call, Reaping, Environment

\* Every step keeps each backend in one place.
LEMMA StepShape == Shape /\ [Next]_vars => Shape'
<1> SUFFICES ASSUME Shape, [Next]_vars PROVE Shape'
  OBVIOUS
<1>1. TypeInv'
  BY StepType DEF Shape
<1> QED  BY <1>1, StepCalm, CalmShape, InsertShape, CreateStepShape

\* At first there are no backends to be anywhere.
LEMMA InitShape == Init => Shape
<1> SUFFICES ASSUME Init PROVE Shape
  OBVIOUS
<1>1. TypeInv
  BY InitType
<1>2. Created /\ Apart
  BY ConstantsAssumption DEF Init, Created, Apart, None, Ids
<1> QED  BY <1>1, <1>2 DEF Shape

-----------------------------------------------------------------------------
(* NothingOrphaned                                                         *)

\* Of the starts that come through connect, a key has one at a time; if it got a
\* tunnel meanwhile, that was opened by a start outside the single flight.
SingleFlight ==
    /\ \A c, d \in Guarded : key[c] = key[d] /\ key[c] # NoKey => c = d
    /\ \A c \in Guarded : key[c] # NoKey /\ reg[key[c]] # None => key[c] \in outside

\* What a sweep removed is stopped before the next sweep.
KillsDoomed == doomed # {} => reaper = "kill"

Owned == Shape /\ SingleFlight /\ KillsDoomed /\ Accounted

\* Starts that return and entries that go away keep it.
LEMMA SingleFlightShrinks ==
  ASSUME SingleFlight, TypeInv, UNCHANGED outside,
         \A c \in Callers : key'[c] \in {key[c], NoKey},
         \A k \in Keys : reg'[k] \in {reg[k], None}
  PROVE  SingleFlight'
<1>1. \A c \in Guarded : key'[c] # NoKey => key'[c] = key[c] /\ key[c] \in Keys
  BY ConstantsAssumption DEF TypeInv, CallersOK
<1> QED  BY <1>1 DEF SingleFlight

\* The single flight keeps a second start of connect out, so that what another
\* start inserts meanwhile comes from outside.
LEMMA StepSingleFlight ==
  ASSUME Shape, SingleFlight, [Next]_vars
  PROVE  SingleFlight'
<1>0. TypeInv /\ CallersOK /\ RegOK
  BY DEF Shape, TypeInv
<1>1. ASSUME NEW k \in Keys, Reuse(k)
      PROVE  SingleFlight'
  BY <1>1, <1>0, SingleFlightShrinks DEF Reuse, callerVars, bodyVars, reaperVars
<1>2. ASSUME NEW k \in Keys, Stop(k)
      PROVE  SingleFlight'
  BY <1>2, <1>0, SingleFlightShrinks DEF Stop, RegOK, callerVars, bodyVars, reaperVars
<1>3. ASSUME NEW k \in Keys, CheckHealth(k)
      PROVE  SingleFlight'
  BY <1>3, <1>0, SingleFlightShrinks DEF CheckHealth, callerVars, bodyVars, reaperVars
<1>4. ASSUME NEW c \in Callers, NEW k \in Keys, Begin(c, k)
      PROVE  SingleFlight'
  <2>1. \A d \in Callers : key'[d] = IF d = c THEN k ELSE key[d]
    BY <1>0, <1>4 DEF Begin, CallersOK
  <2>2. UNCHANGED <<reg, outside>> /\ reg[k] = None /\ Admitted(c, k)
    BY <1>4 DEF Begin, bodyVars
  <2> QED  BY <2>1, <2>2, ConstantsAssumption DEF Admitted, SingleFlight
<1>5. ASSUME Cleanup PROVE SingleFlight'
  BY <1>5, <1>0, SingleFlightShrinks DEF Cleanup, callerVars, bodyVars, reaperVars
<1>6. ASSUME NEW p \in Ports, Touch(p)
      PROVE  SingleFlight'
  BY <1>6, <1>0, SingleFlightShrinks DEF Touch, callerVars, bodyVars, reaperVars
<1>7. ASSUME NEW c \in Callers, BuildFails(c)
      PROVE  SingleFlight'
  BY <1>7, <1>0, SingleFlightShrinks, DoneEffect DEF BuildFails, callerVars, bodyVars, reaperVars
<1>8. ASSUME NEW c \in Callers, NEW p \in Ports, NativeBinds(c, p)
      PROVE  SingleFlight'
  BY <1>8, <1>0, SingleFlightShrinks DEF NativeBinds, Create
<1>9. ASSUME NEW c \in Callers, NEW p \in Ports, ForwardUp(c, p)
      PROVE  SingleFlight'
  BY <1>9, <1>0, SingleFlightShrinks DEF ForwardUp, Create
<1>10. ASSUME NEW c \in Callers, NEW p \in Ports, GcloudSpawns(c, p)
      PROVE  SingleFlight'
  BY <1>10, <1>0, SingleFlightShrinks DEF GcloudSpawns, Create
<1>11. ASSUME NEW c \in Callers, NativeProbeFails(c)
      PROVE  SingleFlight'
  BY <1>11, <1>0, SingleFlightShrinks, DoneEffect DEF NativeProbeFails, callerVars, bodyVars, reaperVars
<1>12. ASSUME NEW c \in Callers, NativeReady(c)
      PROVE  SingleFlight'
  BY <1>12, <1>0, SingleFlightShrinks DEF NativeReady, callerVars, bodyVars, reaperVars
<1>13. ASSUME NEW c \in Callers, GcloudSettles(c)
      PROVE  SingleFlight'
  BY <1>13, <1>0, SingleFlightShrinks, DoneEffect DEF GcloudSettles, callerVars, bodyVars, reaperVars
<1>14. ASSUME NEW c \in Callers, PollEngine(c)
      PROVE  SingleFlight'
  BY <1>14, <1>0, SingleFlightShrinks, DoneEffect DEF PollEngine, callerVars, bodyVars, reaperVars
<1>15. ASSUME NEW c \in Callers, PollPort(c)
      PROVE  SingleFlight'
  BY <1>15, <1>0, SingleFlightShrinks DEF PollPort, callerVars, bodyVars, reaperVars
<1>16. ASSUME NEW c \in Callers, Insert(c)
      PROVE  SingleFlight'
  <2>1. /\ key[c] \in Keys /\ mine[c] \in Ids
        /\ \A k \in Keys : reg'[k] = IF k = key[c] THEN mine[c] ELSE reg[k]
        /\ \A d \in Callers : key'[d] = IF d = c THEN NoKey ELSE key[d]
    BY <1>0, <1>16, InsertEffect
  <2>2. \A d \in Callers : key[d] # NoKey => key[d] \in Keys
    BY <1>0 DEF CallersOK
  <2>3. outside' = IF c \in Guarded THEN outside \ {key[c]} ELSE outside \union {key[c]}
    BY <1>16 DEF Insert
  <2>4. \A d \in Guarded : d \in Callers
    BY ConstantsAssumption
  <2>5. \A d, e \in Guarded : key'[d] = key'[e] /\ key'[d] # NoKey => d = e
    BY <2>1, <2>4 DEF SingleFlight
  <2>6. ASSUME NEW d \in Guarded, key'[d] # NoKey, reg'[key'[d]] # None
        PROVE  key'[d] \in outside'
    <3>1. d # c /\ key'[d] = key[d] /\ key[d] # NoKey /\ key[d] \in Keys
      BY <2>1, <2>2, <2>4, <2>6
    <3>2. CASE key[d] = key[c]
      BY <2>3, <3>1, <3>2 DEF SingleFlight
    <3>3. CASE key[d] # key[c]
      <4>1. reg[key[d]] # None
        BY <2>1, <2>6, <3>1, <3>3
      <4>2. key[d] \in outside
        BY <3>1, <4>1 DEF SingleFlight
      <4> QED  BY <2>3, <3>1, <3>3, <4>2
    <3> QED  BY <3>2, <3>3
  <2> QED  BY <2>5, <2>6 DEF SingleFlight
<1>17. ASSUME ReaperWakes PROVE SingleFlight'
  BY <1>17, <1>0, SingleFlightShrinks DEF ReaperWakes, callerVars, bodyVars, reaperVars
<1>18. ASSUME Sweep PROVE SingleFlight'
  BY <1>18, <1>0, SingleFlightShrinks DEF Sweep, callerVars, bodyVars, reaperVars
<1>19. ASSUME NEW b \in Ids, ReaperStops(b)
      PROVE  SingleFlight'
  BY <1>19, <1>0, SingleFlightShrinks DEF ReaperStops, callerVars, bodyVars, reaperVars
<1>20. ASSUME NEW b \in Ids, LoopEnds(b)
      PROVE  SingleFlight'
  BY <1>20, <1>0, SingleFlightShrinks DEF LoopEnds, callerVars, bodyVars, reaperVars
<1>21. ASSUME NEW b \in Ids, EngineExits(b)
      PROVE  SingleFlight'
  BY <1>21, <1>0, SingleFlightShrinks DEF EngineExits, callerVars, bodyVars, reaperVars
<1>22. ASSUME NEW b \in Ids, GcloudBinds(b)
      PROVE  SingleFlight'
  BY <1>22, <1>0, SingleFlightShrinks DEF GcloudBinds, callerVars, bodyVars, reaperVars
<1>23. ASSUME NEW b \in Ids, ClientConnects(b)
      PROVE  SingleFlight'
  BY <1>23, <1>0, SingleFlightShrinks DEF ClientConnects, callerVars, bodyVars, reaperVars
<1>24. ASSUME NEW b \in Ids, ClientCloses(b)
      PROVE  SingleFlight'
  BY <1>24, <1>0, SingleFlightShrinks DEF ClientCloses, callerVars, bodyVars, reaperVars
<1>25. ASSUME Tick PROVE SingleFlight'
  BY <1>25, <1>0, SingleFlightShrinks DEF Tick, callerVars, bodyVars, reaperVars
<1>26. CASE UNCHANGED vars
  BY <1>26, <1>0, SingleFlightShrinks DEF vars, callerVars, bodyVars, reaperVars
<1> QED
  BY <1>1, <1>2, <1>3, <1>4, <1>5, <1>6, <1>7, <1>8, <1>9, <1>10, <1>11, <1>12, <1>13,
     <1>14, <1>15, <1>16, <1>17, <1>18, <1>19, <1>20, <1>21, <1>22, <1>23, <1>24, <1>25, <1>26
     DEF Next, Starting, Call, Reaping, Environment

\* The reaper goes back to sleep only when it has stopped what it removed.
LEMMA StepKillsDoomed ==
  ASSUME Shape, KillsDoomed, [Next]_vars
  PROVE  KillsDoomed'
<1>1. ASSUME NEW k \in Keys, Reuse(k)
      PROVE  KillsDoomed'
  BY <1>1 DEF Reuse, KillsDoomed, callerVars, bodyVars, reaperVars
<1>2. ASSUME NEW k \in Keys, Stop(k)
      PROVE  KillsDoomed'
  BY <1>2 DEF Stop, KillsDoomed, callerVars, bodyVars, reaperVars
<1>3. ASSUME NEW k \in Keys, CheckHealth(k)
      PROVE  KillsDoomed'
  BY <1>3 DEF CheckHealth, KillsDoomed, callerVars, bodyVars, reaperVars
<1>4. ASSUME NEW c \in Callers, NEW k \in Keys, Begin(c, k)
      PROVE  KillsDoomed'
  BY <1>4 DEF Begin, KillsDoomed, callerVars, bodyVars, reaperVars
<1>5. ASSUME Cleanup PROVE KillsDoomed'
  BY <1>5 DEF Cleanup, KillsDoomed, callerVars, bodyVars, reaperVars
<1>6. ASSUME NEW p \in Ports, Touch(p)
      PROVE  KillsDoomed'
  BY <1>6 DEF Touch, KillsDoomed, callerVars, bodyVars, reaperVars
<1>7. ASSUME NEW c \in Callers, BuildFails(c)
      PROVE  KillsDoomed'
  BY <1>7 DEF BuildFails, KillsDoomed, callerVars, bodyVars, reaperVars
<1>8. ASSUME NEW c \in Callers, NEW p \in Ports, NativeBinds(c, p)
      PROVE  KillsDoomed'
  BY <1>8 DEF NativeBinds, Create, KillsDoomed, callerVars, bodyVars, reaperVars
<1>9. ASSUME NEW c \in Callers, NEW p \in Ports, ForwardUp(c, p)
      PROVE  KillsDoomed'
  BY <1>9 DEF ForwardUp, Create, KillsDoomed, callerVars, bodyVars, reaperVars
<1>10. ASSUME NEW c \in Callers, NEW p \in Ports, GcloudSpawns(c, p)
      PROVE  KillsDoomed'
  BY <1>10 DEF GcloudSpawns, Create, KillsDoomed, callerVars, bodyVars, reaperVars
<1>11. ASSUME NEW c \in Callers, NativeProbeFails(c)
      PROVE  KillsDoomed'
  BY <1>11 DEF NativeProbeFails, KillsDoomed, callerVars, bodyVars, reaperVars
<1>12. ASSUME NEW c \in Callers, NativeReady(c)
      PROVE  KillsDoomed'
  BY <1>12 DEF NativeReady, KillsDoomed, callerVars, bodyVars, reaperVars
<1>13. ASSUME NEW c \in Callers, GcloudSettles(c)
      PROVE  KillsDoomed'
  BY <1>13 DEF GcloudSettles, KillsDoomed, callerVars, bodyVars, reaperVars
<1>14. ASSUME NEW c \in Callers, PollEngine(c)
      PROVE  KillsDoomed'
  BY <1>14 DEF PollEngine, KillsDoomed, callerVars, bodyVars, reaperVars
<1>15. ASSUME NEW c \in Callers, PollPort(c)
      PROVE  KillsDoomed'
  BY <1>15 DEF PollPort, KillsDoomed, callerVars, bodyVars, reaperVars
<1>16. ASSUME NEW c \in Callers, Insert(c)
      PROVE  KillsDoomed'
  BY <1>16 DEF Insert, KillsDoomed, callerVars, bodyVars, reaperVars
<1>17. ASSUME ReaperWakes PROVE KillsDoomed'
  BY <1>17 DEF ReaperWakes, KillsDoomed, callerVars, bodyVars, reaperVars
<1>18. ASSUME Sweep PROVE KillsDoomed'
  BY <1>18 DEF Sweep, KillsDoomed, callerVars, bodyVars, reaperVars
<1>19. ASSUME NEW b \in Ids, ReaperStops(b)
      PROVE  KillsDoomed'
  BY <1>19 DEF ReaperStops, KillsDoomed, callerVars, bodyVars, reaperVars
<1>20. ASSUME NEW b \in Ids, LoopEnds(b)
      PROVE  KillsDoomed'
  BY <1>20 DEF LoopEnds, KillsDoomed, callerVars, bodyVars, reaperVars
<1>21. ASSUME NEW b \in Ids, EngineExits(b)
      PROVE  KillsDoomed'
  BY <1>21 DEF EngineExits, KillsDoomed, callerVars, bodyVars, reaperVars
<1>22. ASSUME NEW b \in Ids, GcloudBinds(b)
      PROVE  KillsDoomed'
  BY <1>22 DEF GcloudBinds, KillsDoomed, callerVars, bodyVars, reaperVars
<1>23. ASSUME NEW b \in Ids, ClientConnects(b)
      PROVE  KillsDoomed'
  BY <1>23 DEF ClientConnects, KillsDoomed, callerVars, bodyVars, reaperVars
<1>24. ASSUME NEW b \in Ids, ClientCloses(b)
      PROVE  KillsDoomed'
  BY <1>24 DEF ClientCloses, KillsDoomed, callerVars, bodyVars, reaperVars
<1>25. ASSUME Tick PROVE KillsDoomed'
  BY <1>25 DEF Tick, KillsDoomed, callerVars, bodyVars, reaperVars
<1>26. CASE UNCHANGED vars
  BY <1>26 DEF vars, KillsDoomed, callerVars, bodyVars, reaperVars
<1> QED
  BY <1>1, <1>2, <1>3, <1>4, <1>5, <1>6, <1>7, <1>8, <1>9, <1>10, <1>11, <1>12, <1>13,
     <1>14, <1>15, <1>16, <1>17, <1>18, <1>19, <1>20, <1>21, <1>22, <1>23, <1>24, <1>25, <1>26
     DEF Next, Starting, Call, Reaping, Environment

\* An engine whose state and owner a step leaves alone stays accounted for.
LEMMA AccountedFrame ==
  ASSUME Accounted, UNCHANGED <<reg, mine, doomed, displaced, proc, kind>>
  PROVE  Accounted'
  BY DEF Accounted, Unreaped, Collectable, Registered, Held

\* What is still claimed after the step, and what a step that stops the rest
\* has to say of them.
LEMMA AccountedStops ==
  ASSUME Accounted, NEW S \in SUBSET Ids, UNCHANGED <<kind, displaced>>,
         \A b \in Ids \ S : proc'[b] = proc[b],
         \A b \in S : \/ proc'[b] \notin {"up", "exited"}
                      \/ proc'[b] = "exited" /\ kind[b] # "gcloud",
         (Registered \union Held \union doomed) \ S
             \subseteq (Registered \union Held \union doomed)'
  PROVE  Accounted'
  BY DEF Accounted, Unreaped, Collectable

\* The same when the step ends one engine b.
LEMMA AccountedStop ==
  ASSUME Accounted, NEW b \in Ids, UNCHANGED <<kind, displaced>>,
         \A x \in Ids \ {b} : proc'[x] = proc[x],
         \/ proc'[b] \notin {"up", "exited"}
         \/ proc'[b] = "exited" /\ kind[b] # "gcloud",
         Registered \ {b} \subseteq Registered',
         Held \ {b} \subseteq Held',
         doomed \ {b} \subseteq doomed'
  PROVE  Accounted'
  BY DEF Accounted, Unreaped, Collectable

\* The engine a start creates is in its hands.
LEMMA CreateAccounted ==
  ASSUME Shape, Accounted, NEW c \in Callers, NEW e, NEW p, NEW s, Create(c, e, p, s)
  PROVE  Accounted'
<1> DEFINE b == made + 1
<1>1. /\ b \in Ids /\ mine' = [mine EXCEPT ![c] = b] /\ step[c] = "build"
      /\ kind' = [kind EXCEPT ![b] = e] /\ proc' = [proc EXCEPT ![b] = "up"]
      /\ UNCHANGED <<reg, doomed, displaced>>
  BY DEF Create, reaperVars
<1>2. /\ mine \in [Callers -> Ids \union {None}] /\ mine[c] = None
      /\ kind \in [Ids -> {"native", "gcloud", "forward"}] /\ proc \in [Ids -> Procs]
  BY <1>1 DEF Shape, TypeInv, CallersOK, CallerShape, BackendsOK
<1> HIDE DEF b
<1>3. Held' = Held \union {b}
  BY <1>1, <1>2, IdsType DEF Held
<1>4. Registered' = Registered /\ doomed' = doomed /\ displaced' = displaced
  BY <1>1 DEF Registered
<1>5. ASSUME NEW x \in Ids, x # b PROVE proc'[x] = proc[x] /\ kind'[x] = kind[x]
  BY <1>1, <1>2, <1>5
<1> QED  BY <1>3, <1>4, <1>5 DEF Accounted, Unreaped, Collectable

\* A start that returns gives up its own backend and no other.
LEMMA HeldDone ==
  ASSUME CallersOK, NEW c \in Callers, Done(c)
  PROVE  Held \ {mine[c]} \subseteq Held'
  BY DoneEffect DEF Held

\* No step orphans an engine.
LEMMA StepAccounted ==
  ASSUME Shape, SingleFlight, KillsDoomed, Accounted, [Next]_vars
  PROVE  Accounted'
<1>0. TypeInv /\ CallersOK /\ RegOK /\ BackendsOK /\ ReaperOK
  BY DEF Shape, TypeInv
<1>1. ASSUME NEW k \in Keys, Reuse(k)
      PROVE  Accounted'
  BY <1>1, <1>0, AccountedFrame DEF Reuse, callerVars, bodyVars, reaperVars
<1>2. ASSUME NEW k \in Keys, Stop(k)
      PROVE  Accounted'
  <2>1. /\ reg[k] \in Ids /\ UNCHANGED <<kind, mine, doomed, displaced>>
        /\ \A l \in Keys : reg'[l] = IF l = k THEN None ELSE reg[l]
        /\ \A x \in Ids \ {reg[k]} : proc'[x] = proc[x]
        /\ proc'[reg[k]] \notin {"up", "exited"}
    BY <1>0, <1>2 DEF Stop, StopAll, RegOK, callerVars, bodyVars, reaperVars
  <2>2. Registered \ {reg[k]} \subseteq Registered' /\ Held' = Held /\ doomed' = doomed
    BY <2>1 DEF Registered, Held
  <2> QED  BY <2>1, <2>2, AccountedStop
<1>3. ASSUME NEW k \in Keys, CheckHealth(k)
      PROVE  Accounted'
  <2>1. /\ reg[k] \in Ids /\ UNCHANGED <<reg, kind, mine, doomed, displaced>>
        /\ \A x \in Ids \ {reg[k]} : proc'[x] = proc[x]
        /\ proc'[reg[k]] = "collected"
    BY <1>0, <1>3 DEF CheckHealth, Collect, RegOK, BackendsOK, callerVars, bodyVars, reaperVars
  <2>2. Registered' = Registered /\ Held' = Held /\ doomed' = doomed
    BY <2>1 DEF Registered, Held
  <2> QED  BY <2>1, <2>2, AccountedStop
<1>4. ASSUME NEW c \in Callers, NEW k \in Keys, Begin(c, k)
      PROVE  Accounted'
  BY <1>4, <1>0, AccountedFrame DEF Begin, callerVars, bodyVars, reaperVars
<1>5. ASSUME Cleanup PROVE Accounted'
  <2> DEFINE dead == {b \in Registered : ~Alive(b)}
  <2>1. /\ dead \subseteq Ids /\ UNCHANGED <<kind, mine, doomed, displaced>>
        /\ \A l \in Keys : reg'[l] = IF reg[l] \in dead THEN None ELSE reg[l]
        /\ \A x \in Ids \ dead : proc'[x] = proc[x]
        /\ \A x \in dead : proc'[x] \notin {"up", "exited"}
    BY <1>0, <1>5 DEF Cleanup, StopAll, Registered, RegOK, callerVars, bodyVars, reaperVars
  <2> HIDE DEF dead
  <2>2. Registered \ dead \subseteq Registered' /\ Held' = Held /\ doomed' = doomed
    BY <2>1 DEF Registered, Held
  <2> QED  BY <2>1, <2>2, AccountedStops
<1>6. ASSUME NEW p \in Ports, Touch(p)
      PROVE  Accounted'
  BY <1>6, <1>0, AccountedFrame DEF Touch, callerVars, bodyVars, reaperVars
<1>7. ASSUME NEW c \in Callers, BuildFails(c)
      PROVE  Accounted'
  <2>1. UNCHANGED <<reg, proc, kind, doomed, displaced>> /\ Done(c) /\ mine[c] = None
    BY <1>0, <1>7 DEF BuildFails, bodyVars, reaperVars, CallersOK, CallerShape
  <2>2. mine' = mine
    BY <1>0, <2>1 DEF Done, CallersOK
  <2> QED  BY <2>1, <2>2, AccountedFrame
<1>8. ASSUME NEW c \in Callers, NEW p \in Ports, NativeBinds(c, p)
      PROVE  Accounted'
  BY <1>8, CreateAccounted DEF NativeBinds
<1>9. ASSUME NEW c \in Callers, NEW p \in Ports, ForwardUp(c, p)
      PROVE  Accounted'
  BY <1>9, CreateAccounted DEF ForwardUp
<1>10. ASSUME NEW c \in Callers, NEW p \in Ports, GcloudSpawns(c, p)
      PROVE  Accounted'
  BY <1>10, CreateAccounted DEF GcloudSpawns
<1>11. ASSUME NEW c \in Callers, NativeProbeFails(c)
      PROVE  Accounted'
  <2> DEFINE b == mine[c]
  <2>1. b \in Ids /\ UNCHANGED <<reg, kind, doomed, displaced>>
    BY <1>0, <1>11, MineType DEF NativeProbeFails, bodyVars, reaperVars
  <2>2. /\ Done(c)
        /\ \A x \in Ids \ {b} : proc'[x] = proc[x]
        /\ proc'[b] \notin {"up", "exited"}
    BY <1>0, <1>11, <2>1 DEF NativeProbeFails, BackendsOK, Procs
  <2>3. Registered' = Registered /\ doomed' = doomed
    BY <2>1 DEF Registered
  <2>4. Held \ {b} \subseteq Held'
    BY <1>0, <2>2, HeldDone
  <2> HIDE DEF b
  <2> QED  BY <2>1, <2>2, <2>3, <2>4, AccountedStop
<1>12. ASSUME NEW c \in Callers, NativeReady(c)
      PROVE  Accounted'
  BY <1>12, <1>0, AccountedFrame DEF NativeReady, callerVars, bodyVars, reaperVars
<1>13. ASSUME NEW c \in Callers, GcloudSettles(c)
      PROVE  Accounted'
  <2>0. mine[c] \in Ids /\ UNCHANGED <<reg, kind, doomed, displaced>>
    BY <1>0, <1>13, MineType DEF GcloudSettles, bodyVars, reaperVars
  <2>1. CASE Alive(mine[c])
    <3>1. UNCHANGED <<mine, proc>>
      BY <1>0, <1>13, <2>1 DEF GcloudSettles, Collect, Collectable, Alive, BackendsOK
    <3> QED  BY <2>0, <3>1, AccountedFrame
  <2>2. CASE ~Alive(mine[c])
    <3>1. Done(c) /\ Collect(mine[c])
      BY <1>13, <2>2 DEF GcloudSettles
    <3>2. /\ \A x \in Ids \ {mine[c]} : proc'[x] = proc[x]
          /\ \/ proc'[mine[c]] \notin {"up", "exited"}
             \/ proc'[mine[c]] = "exited" /\ kind[mine[c]] # "gcloud"
      BY <1>0, <2>0, <2>2, <3>1 DEF Collect, Collectable, Alive, BackendsOK
    <3>3. Registered' = Registered /\ doomed' = doomed
      BY <2>0 DEF Registered
    <3>4. Held \ {mine[c]} \subseteq Held'
      BY <1>0, <3>1, HeldDone
    <3> QED  BY <2>0, <3>2, <3>3, <3>4, AccountedStop
  <2> QED  BY <2>1, <2>2
<1>14. ASSUME NEW c \in Callers, PollEngine(c)
      PROVE  Accounted'
  <2>0. mine[c] \in Ids /\ UNCHANGED <<reg, kind, doomed, displaced>>
    BY <1>0, <1>14, MineType DEF PollEngine, bodyVars, reaperVars
  <2>1. CASE polls[c] < MaxPolls /\ Alive(mine[c])
    <3>1. UNCHANGED <<mine, proc>>
      BY <1>14, <2>1 DEF PollEngine
    <3> QED  BY <2>0, <3>1, AccountedFrame
  <2>2. CASE ~(polls[c] < MaxPolls /\ Alive(mine[c]))
    <3>1. Done(c) /\ StopAll({mine[c]})
      BY <1>14, <2>2 DEF PollEngine
    <3>2. /\ \A x \in Ids \ {mine[c]} : proc'[x] = proc[x]
          /\ proc'[mine[c]] \notin {"up", "exited"}
      BY <2>0, <3>1 DEF StopAll
    <3>3. Registered' = Registered /\ doomed' = doomed
      BY <2>0 DEF Registered
    <3>4. Held \ {mine[c]} \subseteq Held'
      BY <1>0, <3>1, HeldDone
    <3> QED  BY <2>0, <3>2, <3>3, <3>4, AccountedStop
  <2> QED  BY <2>1, <2>2
<1>15. ASSUME NEW c \in Callers, PollPort(c)
      PROVE  Accounted'
  BY <1>15, <1>0, AccountedFrame DEF PollPort, callerVars, bodyVars, reaperVars
<1>16. ASSUME NEW c \in Callers, Insert(c)
      PROVE  Accounted'
  <2>1. /\ key[c] \in Keys /\ mine[c] \in Ids
        /\ \A k \in Keys : reg'[k] = IF k = key[c] THEN mine[c] ELSE reg[k]
        /\ \A d \in Callers : mine'[d] = IF d = c THEN None ELSE mine[d]
    BY <1>0, <1>16, InsertEffect
  <2>2. UNCHANGED <<kind, doomed>> /\ displaced \subseteq displaced'
    BY <1>16 DEF Insert
  <2>3. \A b \in Ids : Unreaped(b)' => Unreaped(b) /\ (b = reg[key[c]] => kind[b] = "gcloud")
    BY <1>16, <2>2 DEF Insert, Unreaped, Collectable
  <2>4. ASSUME reg[key[c]] \in Ids PROVE reg[key[c]] \in displaced'
    <3>1. step[c] = "insert" /\ key[c] # NoKey /\ reg[key[c]] # None
      BY <1>16, <2>1, <2>4, IdsType, ConstantsAssumption DEF Insert
    <3>2. c \notin Guarded \/ key[c] \in outside
      BY <3>1 DEF SingleFlight
    <3> QED  BY <1>16, <2>4, <3>2 DEF Insert
  <2>5. Registered \union Held \subseteq Registered' \union Held' \union {reg[key[c]]}
    BY <2>1 DEF Registered, Held
  <2> QED  BY <2>2, <2>3, <2>4, <2>5 DEF Accounted
<1>17. ASSUME ReaperWakes PROVE Accounted'
  BY <1>17, <1>0, AccountedFrame DEF ReaperWakes, callerVars, bodyVars, reaperVars
<1>18. ASSUME Sweep PROVE Accounted'
  <2>1. /\ doomed = {} /\ UNCHANGED <<kind, mine, proc, displaced>>
        /\ doomed' \subseteq Registered
        /\ \A l \in Keys : reg'[l] = IF reg[l] \in doomed' THEN None ELSE reg[l]
    BY <1>18 DEF Sweep, KillsDoomed, callerVars, bodyVars
  <2>2. Registered \subseteq Registered' \union doomed' /\ Held' = Held
    BY <2>1 DEF Registered, Held
  <2> QED  BY <2>1, <2>2 DEF Accounted, Unreaped, Collectable
<1>19. ASSUME NEW b \in Ids, ReaperStops(b)
      PROVE  Accounted'
  <2>1. /\ UNCHANGED <<reg, kind, mine, displaced>>
        /\ doomed' = doomed \ {b}
        /\ \A x \in Ids \ {b} : proc'[x] = proc[x]
        /\ proc'[b] \notin {"up", "exited"}
    BY <1>19 DEF ReaperStops, StopAll, callerVars, bodyVars
  <2>2. Registered' = Registered /\ Held' = Held
    BY <2>1 DEF Registered, Held
  <2> QED  BY <2>1, <2>2, AccountedStop
<1>20. ASSUME NEW b \in Ids, LoopEnds(b)
      PROVE  Accounted'
  <2>1. /\ UNCHANGED <<reg, kind, mine, doomed, displaced>>
        /\ \A x \in Ids \ {b} : proc'[x] = proc[x]
        /\ proc'[b] \notin {"up", "exited"}
    BY <1>0, <1>20 DEF LoopEnds, callerVars, bodyVars, reaperVars, BackendsOK
  <2>2. Registered' = Registered /\ Held' = Held
    BY <2>1 DEF Registered, Held
  <2> QED  BY <2>1, <2>2, AccountedStop
<1>21. ASSUME NEW b \in Ids, EngineExits(b)
      PROVE  Accounted'
  <2>1. /\ UNCHANGED <<reg, kind, mine, doomed, displaced>>
        /\ proc[b] = "up"
        /\ \A x \in Ids \ {b} : proc'[x] = proc[x]
    BY <1>0, <1>21 DEF EngineExits, callerVars, bodyVars, reaperVars, BackendsOK
  <2>2. Registered' = Registered /\ Held' = Held
    BY <2>1 DEF Registered, Held
  <2> QED  BY <2>1, <2>2 DEF Accounted, Unreaped, Collectable
<1>22. ASSUME NEW b \in Ids, GcloudBinds(b)
      PROVE  Accounted'
  BY <1>22, <1>0, AccountedFrame DEF GcloudBinds, callerVars, bodyVars, reaperVars
<1>23. ASSUME NEW b \in Ids, ClientConnects(b)
      PROVE  Accounted'
  BY <1>23, <1>0, AccountedFrame DEF ClientConnects, callerVars, bodyVars, reaperVars
<1>24. ASSUME NEW b \in Ids, ClientCloses(b)
      PROVE  Accounted'
  BY <1>24, <1>0, AccountedFrame DEF ClientCloses, callerVars, bodyVars, reaperVars
<1>25. ASSUME Tick PROVE Accounted'
  BY <1>25, <1>0, AccountedFrame DEF Tick, callerVars, bodyVars, reaperVars
<1>26. CASE UNCHANGED vars
  BY <1>26, AccountedFrame DEF vars, callerVars, bodyVars, reaperVars
<1> QED
  BY <1>1, <1>2, <1>3, <1>4, <1>5, <1>6, <1>7, <1>8, <1>9, <1>10, <1>11, <1>12, <1>13,
     <1>14, <1>15, <1>16, <1>17, <1>18, <1>19, <1>20, <1>21, <1>22, <1>23, <1>24, <1>25, <1>26
     DEF Next, Starting, Call, Reaping, Environment

\* No engine that runs, and no child nobody has waited for, is ever out of reach
\* of a stop, of the start that creates it and of the reaper, unless another
\* start replaced it under its key and one of the two did not come through the
\* single flight; for any number of keys, threads, ports and backends, and
\* whichever threads come through it.  (TunnelOrphan.cfg: the reconnection's
\* start does not, and a child is orphaned that way.)
THEOREM NothingOrphaned == Spec => []Accounted
<1>1. Init => Owned
  <2> SUFFICES ASSUME Init PROVE Owned
    OBVIOUS
  <2>1. Shape
    BY InitShape
  <2>2. SingleFlight /\ KillsDoomed /\ Accounted
    BY ConstantsAssumption DEF Init, SingleFlight, KillsDoomed, Accounted, Unreaped, Collectable
  <2> QED  BY <2>1, <2>2 DEF Owned
<1>2. Owned /\ [Next]_vars => Owned'
  BY StepShape, StepSingleFlight, StepKillsDoomed, StepAccounted DEF Owned
<1>3. Owned => Accounted
  BY DEF Owned
<1> QED  BY <1>1, <1>2, <1>3, PTL DEF Spec

-----------------------------------------------------------------------------
(* OnlyIdleIsReaped: ages                                                  *)

\* A backend in a start's hands is younger than a start may take; a registered
\* one was handed out or touched no longer ago than its last_active says, but
\* for the slack.
Young ==
    /\ \A c \in Callers : mine[c] # None => quiet[mine[c]] <= MaxStart
    /\ \A k \in Keys : reg[k] # None => quiet[reg[k]] <= since[reg[k]] + Slack

\* The ports the reaper saw are those of the connections it must spare.
SparedSeen == reaper = "sweep" => \A b \in spared : port[b] \in seen

\* The slack covers both what a start and what the reaper may take.
LEMMA SlackType == Slack \in Nat /\ MaxStart <= Slack /\ MaxLag <= Slack
  BY ConstantsAssumption DEF Slack

\* The clocks of the backends something points at are numbers.
LEMMA ClockRange ==
  ASSUME ClocksOK
  PROVE  /\ \A b \in Ids : quiet[b] \in Nat /\ since[b] \in Nat
         /\ \A b \in Ids : quiet[b] <= Cap /\ since[b] <= Cap
         /\ lag \in Nat /\ lag <= MaxLag
  BY CapType, ConstantsAssumption DEF ClocksOK

\* A step that points at nothing new and only restarts clocks keeps the ages.
LEMMA YoungFrame ==
  ASSUME Shape, Young, TypeInv', Calm,
         \A b \in Ids : \/ quiet'[b] = 0
                        \/ quiet'[b] = quiet[b] /\ since'[b] = since[b]
  PROVE  Young'
<1>0. RegOK /\ CallersOK /\ ClocksOK /\ ClocksOK'
  BY DEF Shape, TypeInv
<1>1. ASSUME NEW c \in Callers, mine'[c] # None PROVE quiet'[mine'[c]] <= MaxStart
  <2>1. mine'[c] = mine[c] /\ mine[c] \in Ids
    BY <1>0, <1>1 DEF Calm, CallersOK
  <2>2. quiet[mine[c]] <= MaxStart
    BY <1>1, <2>1 DEF Young
  <2> QED  BY <2>1, <2>2, ConstantsAssumption
<1>2. ASSUME NEW k \in Keys, reg'[k] # None PROVE quiet'[reg'[k]] <= since'[reg'[k]] + Slack
  <2>1. reg'[k] = reg[k] /\ reg[k] \in Ids
    BY <1>0, <1>2 DEF Calm, RegOK
  <2>2. quiet[reg[k]] <= since[reg[k]] + Slack
    BY <1>2, <2>1 DEF Young
  <2>3. since'[reg[k]] \in Nat
    BY <1>0, <2>1, CapType DEF ClocksOK
  <2> HIDE DEF Slack
  <2> QED  BY <2>1, <2>2, <2>3, SlackType
<1> QED  BY <1>1, <1>2 DEF Young

\* A step that leaves the registry, the starts and the clocks alone keeps them.
LEMMA YoungSame ==
  ASSUME Young, UNCHANGED <<reg, mine, quiet, since>>
  PROVE  Young'
  BY DEF Young

\* A created backend starts at age 0, and disturbs no other.
LEMMA CreateYoung ==
  ASSUME Shape, Young, NEW c \in Callers, NEW e, NEW p, NEW s, Create(c, e, p, s)
  PROVE  Young'
<1> DEFINE b == made + 1
<1>0. /\ made \in Nat /\ b \in Ids
      /\ mine' = [mine EXCEPT ![c] = b] /\ mine \in [Callers -> Ids \union {None}]
      /\ quiet' = [quiet EXCEPT ![b] = 0] /\ quiet \in [Ids -> 0..Cap]
      /\ UNCHANGED <<reg, since>> /\ reg \in [Keys -> Ids \union {None}]
      /\ \A k \in Keys : reg[k] <= made
      /\ \A d \in Callers : mine[d] <= made
  BY ConstantsAssumption DEF Create, Shape, Created, TypeInv, BackendsOK, CallersOK, RegOK, ClocksOK
<1>1. (\A k \in Keys : reg[k] # b) /\ (\A d \in Callers : mine[d] # b)
  BY <1>0
<1> HIDE DEF b
<1>2. ASSUME NEW d \in Callers, mine'[d] # None PROVE quiet'[mine'[d]] <= MaxStart
  <2>1. CASE d = c
    BY <1>0, <2>1, ConstantsAssumption
  <2>2. CASE d # c
    <3>1. mine'[d] = mine[d] /\ mine[d] \in Ids /\ mine[d] # b
      BY <1>0, <1>1, <1>2, <2>2
    <3> QED  BY <1>0, <1>2, <3>1 DEF Young
  <2> QED  BY <2>1, <2>2
<1>3. ASSUME NEW k \in Keys, reg'[k] # None PROVE quiet'[reg'[k]] <= since'[reg'[k]] + Slack
  <2>1. reg'[k] = reg[k] /\ reg[k] \in Ids /\ reg[k] # b
    BY <1>0, <1>1, <1>3
  <2>2. quiet'[reg[k]] = quiet[reg[k]] /\ since' = since
    BY <1>0, <2>1
  <2> QED  BY <1>3, <2>1, <2>2 DEF Young
<1> QED  BY <1>2, <1>3 DEF Young

\* An inserted backend was handed out just now, and is as young as its start.
LEMMA InsertYoung ==
  ASSUME Shape, Young, NEW c \in Callers, Insert(c)
  PROVE  Young'
<1>0. TypeInv /\ Apart /\ RegOK /\ CallersOK /\ ClocksOK
  BY DEF Shape, TypeInv
<1>1. /\ key[c] \in Keys /\ mine[c] \in Ids /\ mine[c] # None
      /\ \A k \in Keys : reg'[k] = IF k = key[c] THEN mine[c] ELSE reg[k]
      /\ \A d \in Callers : mine'[d] = IF d = c THEN None ELSE mine[d]
      /\ quiet' = quiet
      /\ \A b \in Ids : since'[b] = IF b = mine[c] THEN 0 ELSE since[b]
  BY <1>0, InsertEffect, IdsType DEF Insert, HandedOut
<1>2. ASSUME NEW d \in Callers, mine'[d] # None PROVE quiet'[mine'[d]] <= MaxStart
  BY <1>1, <1>2 DEF Young
<1>3. ASSUME NEW k \in Keys, reg'[k] # None PROVE quiet'[reg'[k]] <= since'[reg'[k]] + Slack
  <2>1. CASE k = key[c]
    <3>1. reg'[k] = mine[c] /\ since'[mine[c]] = 0 /\ quiet'[mine[c]] = quiet[mine[c]]
      BY <1>1, <2>1
    <3>2. quiet[mine[c]] <= MaxStart /\ quiet[mine[c]] \in Nat
      BY <1>0, <1>1, ClockRange DEF Young
    <3> QED  BY <3>1, <3>2, SlackType, ConstantsAssumption
  <2>2. CASE k # key[c]
    <3>1. reg'[k] = reg[k] /\ reg[k] \in Ids /\ reg[k] # mine[c]
      BY <1>0, <1>1, <1>3, <2>2 DEF Apart, RegOK
    <3>2. since'[reg[k]] = since[reg[k]] /\ quiet' = quiet
      BY <1>1, <3>1
    <3> QED  BY <1>3, <3>1, <3>2 DEF Young
  <2> QED  BY <2>1, <2>2
<1> QED  BY <1>2, <1>3 DEF Young

\* The sweep sets the clock of an active tunnel to the reaper's lag, which the
\* slack covers.
LEMMA SweepYoung ==
  ASSUME Shape, Young, Sweep
  PROVE  Young'
<1>0. Apart /\ RegOK /\ CallersOK /\ ClocksOK
  BY DEF Shape, TypeInv
<1>1. /\ UNCHANGED <<mine, since>>
      /\ \A k \in Keys : reg'[k] \in {reg[k], None}
      /\ \A b \in Ids : quiet'[b] = quiet[b] \/ (b \in Registered /\ quiet'[b] = lag)
  BY DEF Sweep, callerVars
<1>2. ASSUME NEW c \in Callers, mine'[c] # None PROVE quiet'[mine'[c]] <= MaxStart
  <2>1. mine[c] \in Ids /\ mine[c] \notin Registered
    BY <1>0, <1>1, <1>2 DEF CallersOK, Registered, Apart
  <2> QED  BY <1>1, <1>2, <2>1 DEF Young
<1>3. ASSUME NEW k \in Keys, reg'[k] # None PROVE quiet'[reg'[k]] <= since'[reg'[k]] + Slack
  <2>1. reg'[k] = reg[k] /\ reg[k] \in Ids
    BY <1>0, <1>1, <1>3 DEF RegOK
  <2>2. quiet[reg[k]] <= since[reg[k]] + Slack
    BY <1>3, <2>1 DEF Young
  <2>3. since[reg[k]] \in Nat /\ lag \in Nat /\ lag <= MaxLag
    BY <1>0, <2>1, ClockRange
  <2>4. quiet'[reg[k]] = quiet[reg[k]] \/ quiet'[reg[k]] = lag
    BY <1>1, <2>1
  <2> QED  BY <1>1, <2>1, <2>2, <2>3, <2>4, SlackType, ConstantsAssumption
<1> QED  BY <1>2, <1>3 DEF Young

\* Both clocks of a registered backend tick; a start that is too old does not
\* let the tick happen.
LEMMA TickYoung ==
  ASSUME Shape, Young, Tick
  PROVE  Young'
<1>0. Created /\ RegOK /\ CallersOK /\ ClocksOK
  BY DEF Shape, TypeInv
<1>1. UNCHANGED <<mine, reg>>
  BY DEF Tick, callerVars
<1>2. ASSUME NEW c \in Callers, mine[c] # None PROVE quiet'[mine[c]] <= MaxStart
  <2>1. mine[c] \in Ids /\ mine[c] \in Held
    BY <1>0, <1>2 DEF CallersOK, Held
  <2>2. quiet[mine[c]] < MaxStart /\ quiet[mine[c]] \in Nat
    BY <1>0, <2>1, ClockRange DEF Tick
  <2>3. quiet'[mine[c]] \in {quiet[mine[c]], quiet[mine[c]] + 1}
    BY <2>1 DEF Tick, Older
  <2> QED  BY <2>2, <2>3, ConstantsAssumption
<1>3. ASSUME NEW k \in Keys, reg[k] # None PROVE quiet'[reg[k]] <= since'[reg[k]] + Slack
  <2> DEFINE b == reg[k]
  <2>1. b \in Ids /\ b \in Registered /\ b <= made
    BY <1>0, <1>3 DEF RegOK, Registered, Created
  <2>2. /\ quiet[b] \in Nat /\ since[b] \in Nat
        /\ quiet[b] <= Cap /\ since[b] <= Cap
        /\ quiet[b] <= since[b] + Slack
    BY <1>0, <1>3, <2>1, ClockRange DEF Young
  <2>3. quiet'[b] = Older(quiet[b]) /\ since'[b] = Older(since[b])
    BY <2>1 DEF Tick
  <2> HIDE DEF b
  <2>4. Older(quiet[b]) <= Cap /\ Older(quiet[b]) <= quiet[b] + 1
    BY <2>2, CapType DEF Older
  <2>5. Older(since[b]) = since[b] + 1 \/ Older(since[b]) = Cap
    BY <2>2, CapType DEF Older
  <2>6. Older(quiet[b]) \in Nat
    BY <2>2, CapType DEF Older
  <2>7. Older(quiet[b]) <= Older(since[b]) + Slack
    BY <2>2, <2>4, <2>5, <2>6, CapType, SlackType
  <2> QED  BY <2>3, <2>7 DEF b
<1> QED  BY <1>1, <1>2, <1>3 DEF Young

\* No step makes a tunnel look older than it is by more than the slack.
LEMMA StepYoung ==
  ASSUME Shape, Young, [Next]_vars
  PROVE  Young'
<1>0. TypeInv /\ TypeInv' /\ CallersOK /\ RegOK /\ BackendsOK /\ Created
  BY StepType DEF Shape, TypeInv
<1>1. ASSUME NEW k \in Keys, Reuse(k)
      PROVE  Young'
  <2>1. Calm
    BY <1>0, <1>1 DEF Reuse, Calm, Created, callerVars, bodyVars, reaperVars
  <2>2. \A b \in Ids : quiet'[b] = 0 \/ (quiet'[b] = quiet[b] /\ since'[b] = since[b])
    BY <1>1 DEF Reuse, Refreshed, HandedOut
  <2> QED  BY <1>0, <2>1, <2>2, YoungFrame
<1>2. ASSUME NEW k \in Keys, Stop(k)
      PROVE  Young'
  <2>1. Calm
    BY <1>0, <1>2, StopAllCalm DEF Stop, Calm, Created, RegOK, callerVars, bodyVars, reaperVars
  <2>2. \A b \in Ids : quiet'[b] = 0 \/ (quiet'[b] = quiet[b] /\ since'[b] = since[b])
    BY <1>2 DEF Stop
  <2> QED  BY <1>0, <2>1, <2>2, YoungFrame
<1>3. ASSUME NEW k \in Keys, CheckHealth(k)
      PROVE  Young'
  BY <1>3, <1>0, YoungSame DEF CheckHealth, callerVars, bodyVars, reaperVars
<1>4. ASSUME NEW c \in Callers, NEW k \in Keys, Begin(c, k)
      PROVE  Young'
  BY <1>4, <1>0, YoungSame DEF Begin, callerVars, bodyVars, reaperVars
<1>5. ASSUME Cleanup PROVE Young'
  <2>1. Calm
    BY <1>0, <1>5, StopAllCalm DEF Cleanup, Calm, Created, Registered, RegOK, callerVars, bodyVars, reaperVars
  <2>2. \A b \in Ids : quiet'[b] = 0 \/ (quiet'[b] = quiet[b] /\ since'[b] = since[b])
    BY <1>5 DEF Cleanup
  <2> QED  BY <1>0, <2>1, <2>2, YoungFrame
<1>6. ASSUME NEW p \in Ports, Touch(p)
      PROVE  Young'
  <2>1. Calm
    BY <1>0, <1>6 DEF Touch, Calm, Created, callerVars, bodyVars, reaperVars
  <2>2. \A b \in Ids : quiet'[b] = 0 \/ (quiet'[b] = quiet[b] /\ since'[b] = since[b])
    BY <1>6 DEF Touch, Refreshed, HandedOut
  <2> QED  BY <1>0, <2>1, <2>2, YoungFrame
<1>7. ASSUME NEW c \in Callers, BuildFails(c)
      PROVE  Young'
  <2>1. Calm
    BY <1>0, <1>7, DoneEffect DEF BuildFails, Calm, Created, callerVars, bodyVars, reaperVars
  <2>2. \A b \in Ids : quiet'[b] = 0 \/ (quiet'[b] = quiet[b] /\ since'[b] = since[b])
    BY <1>7 DEF BuildFails
  <2> QED  BY <1>0, <2>1, <2>2, YoungFrame
<1>8. ASSUME NEW c \in Callers, NEW p \in Ports, NativeBinds(c, p)
      PROVE  Young'
  BY <1>8, CreateYoung DEF NativeBinds
<1>9. ASSUME NEW c \in Callers, NEW p \in Ports, ForwardUp(c, p)
      PROVE  Young'
  BY <1>9, CreateYoung DEF ForwardUp
<1>10. ASSUME NEW c \in Callers, NEW p \in Ports, GcloudSpawns(c, p)
      PROVE  Young'
  BY <1>10, CreateYoung DEF GcloudSpawns
<1>11. ASSUME NEW c \in Callers, NativeProbeFails(c)
      PROVE  Young'
  <2>1. Calm
    BY <1>0, <1>11, DoneEffect, MineType DEF NativeProbeFails, Cut, Calm, Created, BackendsOK, callerVars, bodyVars, reaperVars
  <2>2. \A b \in Ids : quiet'[b] = 0 \/ (quiet'[b] = quiet[b] /\ since'[b] = since[b])
    BY <1>11 DEF NativeProbeFails
  <2> QED  BY <1>0, <2>1, <2>2, YoungFrame
<1>12. ASSUME NEW c \in Callers, NativeReady(c)
      PROVE  Young'
  <2>1. Calm
    BY <1>0, <1>12 DEF NativeReady, Calm, Created, callerVars, bodyVars, reaperVars
  <2>2. \A b \in Ids : quiet'[b] = 0 \/ (quiet'[b] = quiet[b] /\ since'[b] = since[b])
    BY <1>12 DEF NativeReady, Refreshed
  <2> QED  BY <1>0, <2>1, <2>2, YoungFrame
<1>13. ASSUME NEW c \in Callers, GcloudSettles(c)
      PROVE  Young'
  <2>1. Calm
    BY <1>0, <1>13, DoneEffect, MineType DEF GcloudSettles, Collect, Collectable, Calm, Created, BackendsOK, callerVars, bodyVars, reaperVars
  <2>2. \A b \in Ids : quiet'[b] = 0 \/ (quiet'[b] = quiet[b] /\ since'[b] = since[b])
    BY <1>13 DEF GcloudSettles
  <2> QED  BY <1>0, <2>1, <2>2, YoungFrame
<1>14. ASSUME NEW c \in Callers, PollEngine(c)
      PROVE  Young'
  <2>1. Calm
    BY <1>0, <1>14, DoneEffect, StopAllCalm DEF PollEngine, Calm, Created, callerVars, bodyVars, reaperVars
  <2>2. \A b \in Ids : quiet'[b] = 0 \/ (quiet'[b] = quiet[b] /\ since'[b] = since[b])
    BY <1>14 DEF PollEngine
  <2> QED  BY <1>0, <2>1, <2>2, YoungFrame
<1>15. ASSUME NEW c \in Callers, PollPort(c)
      PROVE  Young'
  BY <1>15, <1>0, YoungSame DEF PollPort, callerVars, bodyVars, reaperVars
<1>16. ASSUME NEW c \in Callers, Insert(c)
      PROVE  Young'
  BY <1>16, InsertYoung
<1>17. ASSUME ReaperWakes PROVE Young'
  BY <1>17, <1>0, YoungSame DEF ReaperWakes, callerVars, bodyVars, reaperVars
<1>18. ASSUME Sweep PROVE Young'
  BY <1>18, SweepYoung
<1>19. ASSUME NEW b \in Ids, ReaperStops(b)
      PROVE  Young'
  BY <1>19, <1>0, YoungSame DEF ReaperStops, callerVars, bodyVars, reaperVars
<1>20. ASSUME NEW b \in Ids, LoopEnds(b)
      PROVE  Young'
  BY <1>20, <1>0, YoungSame DEF LoopEnds, callerVars, bodyVars, reaperVars
<1>21. ASSUME NEW b \in Ids, EngineExits(b)
      PROVE  Young'
  BY <1>21, <1>0, YoungSame DEF EngineExits, callerVars, bodyVars, reaperVars
<1>22. ASSUME NEW b \in Ids, GcloudBinds(b)
      PROVE  Young'
  BY <1>22, <1>0, YoungSame DEF GcloudBinds, callerVars, bodyVars, reaperVars
<1>23. ASSUME NEW b \in Ids, ClientConnects(b)
      PROVE  Young'
  BY <1>23, <1>0, YoungSame DEF ClientConnects, callerVars, bodyVars, reaperVars
<1>24. ASSUME NEW b \in Ids, ClientCloses(b)
      PROVE  Young'
  BY <1>24, <1>0, YoungSame DEF ClientCloses, callerVars, bodyVars, reaperVars
<1>25. ASSUME Tick PROVE Young'
  BY <1>25, TickYoung
<1>26. CASE UNCHANGED vars
  BY <1>26, YoungSame DEF vars, callerVars, bodyVars, reaperVars
<1> QED
  BY <1>1, <1>2, <1>3, <1>4, <1>5, <1>6, <1>7, <1>8, <1>9, <1>10, <1>11, <1>12, <1>13,
     <1>14, <1>15, <1>16, <1>17, <1>18, <1>19, <1>20, <1>21, <1>22, <1>23, <1>24, <1>25, <1>26
     DEF Next, Starting, Call, Reaping, Environment

\* Connections that close leave the set; connections that open while the reaper
\* waits for the lock do not enter it.
LEMMA StepSparedSeen ==
  ASSUME Shape, SparedSeen, [Next]_vars
  PROVE  SparedSeen'
<1>0. BackendsOK /\ Created /\ spared \subseteq bound /\ bound \subseteq Ids
  BY DEF Shape, TypeInv, BackendsOK
<1>1. ASSUME NEW c \in Callers, NEW e, NEW p, NEW s, Create(c, e, p, s) PROVE SparedSeen'
  <2>1. /\ port' = [port EXCEPT ![made + 1] = p] /\ UNCHANGED <<spared, reaper, seen>>
    BY <1>1 DEF Create, reaperVars
  <2>2. \A b \in spared : b \in Ids /\ b <= made /\ made \in Nat
    BY <1>0, ConstantsAssumption DEF Created, BackendsOK
  <2>3. \A b \in spared : port'[b] = port[b]
    BY <1>0, <2>1, <2>2, IdsType DEF BackendsOK
  <2> QED  BY <2>1, <2>3 DEF SparedSeen
<1>2. ASSUME NEW k \in Keys, Reuse(k)
      PROVE  SparedSeen'
  BY <1>2 DEF Reuse, SparedSeen, callerVars, bodyVars, reaperVars
<1>3. ASSUME NEW k \in Keys, Stop(k)
      PROVE  SparedSeen'
  BY <1>3 DEF Stop, StopAll, Cut, SparedSeen, callerVars, bodyVars, reaperVars
<1>4. ASSUME NEW k \in Keys, CheckHealth(k)
      PROVE  SparedSeen'
  BY <1>4 DEF CheckHealth, SparedSeen, callerVars, bodyVars, reaperVars
<1>5. ASSUME NEW c \in Callers, NEW k \in Keys, Begin(c, k)
      PROVE  SparedSeen'
  BY <1>5 DEF Begin, SparedSeen, callerVars, bodyVars, reaperVars
<1>6. ASSUME Cleanup PROVE SparedSeen'
  BY <1>6 DEF Cleanup, StopAll, Cut, SparedSeen, callerVars, bodyVars, reaperVars
<1>7. ASSUME NEW p \in Ports, Touch(p)
      PROVE  SparedSeen'
  BY <1>7 DEF Touch, SparedSeen, callerVars, bodyVars, reaperVars
<1>8. ASSUME NEW c \in Callers, BuildFails(c)
      PROVE  SparedSeen'
  BY <1>8 DEF BuildFails, SparedSeen, callerVars, bodyVars, reaperVars
<1>9. ASSUME NEW c \in Callers, NEW p \in Ports, NativeBinds(c, p)
      PROVE  SparedSeen'
  BY <1>9, <1>1 DEF NativeBinds
<1>10. ASSUME NEW c \in Callers, NEW p \in Ports, ForwardUp(c, p)
      PROVE  SparedSeen'
  BY <1>10, <1>1 DEF ForwardUp
<1>11. ASSUME NEW c \in Callers, NEW p \in Ports, GcloudSpawns(c, p)
      PROVE  SparedSeen'
  BY <1>11, <1>1 DEF GcloudSpawns
<1>12. ASSUME NEW c \in Callers, NativeProbeFails(c)
      PROVE  SparedSeen'
  BY <1>12 DEF NativeProbeFails, Cut, SparedSeen, callerVars, bodyVars, reaperVars
<1>13. ASSUME NEW c \in Callers, NativeReady(c)
      PROVE  SparedSeen'
  BY <1>13 DEF NativeReady, SparedSeen, callerVars, bodyVars, reaperVars
<1>14. ASSUME NEW c \in Callers, GcloudSettles(c)
      PROVE  SparedSeen'
  BY <1>14 DEF GcloudSettles, SparedSeen, callerVars, bodyVars, reaperVars
<1>15. ASSUME NEW c \in Callers, PollEngine(c)
      PROVE  SparedSeen'
  BY <1>15 DEF PollEngine, StopAll, Cut, SparedSeen, callerVars, bodyVars, reaperVars
<1>16. ASSUME NEW c \in Callers, PollPort(c)
      PROVE  SparedSeen'
  BY <1>16 DEF PollPort, SparedSeen, callerVars, bodyVars, reaperVars
<1>17. ASSUME NEW c \in Callers, Insert(c)
      PROVE  SparedSeen'
  BY <1>17 DEF Insert, SparedSeen, callerVars, bodyVars, reaperVars
<1>18. ASSUME ReaperWakes PROVE SparedSeen'
  BY <1>18 DEF ReaperWakes, SparedSeen, callerVars, bodyVars, reaperVars
<1>19. ASSUME Sweep PROVE SparedSeen'
  BY <1>19 DEF Sweep, SparedSeen, callerVars, bodyVars, reaperVars
<1>20. ASSUME NEW b \in Ids, ReaperStops(b)
      PROVE  SparedSeen'
  BY <1>20 DEF ReaperStops, StopAll, Cut, SparedSeen, callerVars, bodyVars, reaperVars
<1>21. ASSUME NEW b \in Ids, LoopEnds(b)
      PROVE  SparedSeen'
  BY <1>21 DEF LoopEnds, Cut, SparedSeen, callerVars, bodyVars, reaperVars
<1>22. ASSUME NEW b \in Ids, EngineExits(b)
      PROVE  SparedSeen'
  BY <1>22 DEF EngineExits, Cut, SparedSeen, callerVars, bodyVars, reaperVars
<1>23. ASSUME NEW b \in Ids, GcloudBinds(b)
      PROVE  SparedSeen'
  BY <1>23 DEF GcloudBinds, SparedSeen, callerVars, bodyVars, reaperVars
<1>24. ASSUME NEW b \in Ids, ClientConnects(b)
      PROVE  SparedSeen'
  BY <1>24 DEF ClientConnects, SparedSeen, callerVars, bodyVars, reaperVars
<1>25. ASSUME NEW b \in Ids, ClientCloses(b)
      PROVE  SparedSeen'
  BY <1>25 DEF ClientCloses, SparedSeen, callerVars, bodyVars, reaperVars
<1>26. ASSUME Tick PROVE SparedSeen'
  BY <1>26 DEF Tick, SparedSeen, callerVars, bodyVars, reaperVars
<1>27. CASE UNCHANGED vars
  BY <1>27 DEF vars, SparedSeen, callerVars, bodyVars, reaperVars
<1> QED
  BY <1>2, <1>3, <1>4, <1>5, <1>6, <1>7, <1>8, <1>9, <1>10, <1>11, <1>12, <1>13,
     <1>14, <1>15, <1>16, <1>17, <1>18, <1>19, <1>20, <1>21, <1>22, <1>23, <1>24, <1>25, <1>26, <1>27
     DEF Next, Starting, Call, Reaping, Environment

\* The one step that removes an idle tunnel.
LEMMA SweepReapsIdle ==
  ASSUME Shape, Young, SparedSeen, Sweep, NEW b \in doomed' \ doomed
  PROVE  b \notin spared /\ since[b] + Slack > Idle
<1>0. RegOK /\ ClocksOK
  BY DEF Shape, TypeInv
<1>1. b \in Registered /\ port[b] \notin seen /\ Expired(b) /\ reaper = "sweep"
  BY DEF Sweep
<1>2. b \in Ids /\ quiet[b] <= since[b] + Slack
  BY <1>0, <1>1 DEF Registered, RegOK, Young
<1>3. quiet[b] \in Nat /\ since[b] \in Nat /\ lag \in Nat
  BY <1>0, <1>2, ClockRange
<1>4. since[b] + Slack > Idle
  BY <1>1, <1>2, <1>3, SlackType, ConstantsAssumption DEF Expired
<1> QED  BY <1>1, <1>4 DEF SparedSeen

\* Only a sweep adds to what the reaper has to stop.
LEMMA OnlySweepDooms ==
  ASSUME [Next]_vars
  PROVE  Sweep \/ doomed' \subseteq doomed
<1>1. ASSUME NEW k \in Keys, Reuse(k)
      PROVE  Sweep \/ doomed' \subseteq doomed
  BY <1>1 DEF Reuse, callerVars, bodyVars, reaperVars
<1>2. ASSUME NEW k \in Keys, Stop(k)
      PROVE  Sweep \/ doomed' \subseteq doomed
  BY <1>2 DEF Stop, callerVars, bodyVars, reaperVars
<1>3. ASSUME NEW k \in Keys, CheckHealth(k)
      PROVE  Sweep \/ doomed' \subseteq doomed
  BY <1>3 DEF CheckHealth, callerVars, bodyVars, reaperVars
<1>4. ASSUME NEW c \in Callers, NEW k \in Keys, Begin(c, k)
      PROVE  Sweep \/ doomed' \subseteq doomed
  BY <1>4 DEF Begin, callerVars, bodyVars, reaperVars
<1>5. ASSUME Cleanup PROVE Sweep \/ doomed' \subseteq doomed
  BY <1>5 DEF Cleanup, callerVars, bodyVars, reaperVars
<1>6. ASSUME NEW p \in Ports, Touch(p)
      PROVE  Sweep \/ doomed' \subseteq doomed
  BY <1>6 DEF Touch, callerVars, bodyVars, reaperVars
<1>7. ASSUME NEW c \in Callers, BuildFails(c)
      PROVE  Sweep \/ doomed' \subseteq doomed
  BY <1>7 DEF BuildFails, callerVars, bodyVars, reaperVars
<1>8. ASSUME NEW c \in Callers, NEW p \in Ports, NativeBinds(c, p)
      PROVE  Sweep \/ doomed' \subseteq doomed
  BY <1>8 DEF NativeBinds, Create, callerVars, bodyVars, reaperVars
<1>9. ASSUME NEW c \in Callers, NEW p \in Ports, ForwardUp(c, p)
      PROVE  Sweep \/ doomed' \subseteq doomed
  BY <1>9 DEF ForwardUp, Create, callerVars, bodyVars, reaperVars
<1>10. ASSUME NEW c \in Callers, NEW p \in Ports, GcloudSpawns(c, p)
      PROVE  Sweep \/ doomed' \subseteq doomed
  BY <1>10 DEF GcloudSpawns, Create, callerVars, bodyVars, reaperVars
<1>11. ASSUME NEW c \in Callers, NativeProbeFails(c)
      PROVE  Sweep \/ doomed' \subseteq doomed
  BY <1>11 DEF NativeProbeFails, callerVars, bodyVars, reaperVars
<1>12. ASSUME NEW c \in Callers, NativeReady(c)
      PROVE  Sweep \/ doomed' \subseteq doomed
  BY <1>12 DEF NativeReady, callerVars, bodyVars, reaperVars
<1>13. ASSUME NEW c \in Callers, GcloudSettles(c)
      PROVE  Sweep \/ doomed' \subseteq doomed
  BY <1>13 DEF GcloudSettles, callerVars, bodyVars, reaperVars
<1>14. ASSUME NEW c \in Callers, PollEngine(c)
      PROVE  Sweep \/ doomed' \subseteq doomed
  BY <1>14 DEF PollEngine, callerVars, bodyVars, reaperVars
<1>15. ASSUME NEW c \in Callers, PollPort(c)
      PROVE  Sweep \/ doomed' \subseteq doomed
  BY <1>15 DEF PollPort, callerVars, bodyVars, reaperVars
<1>16. ASSUME NEW c \in Callers, Insert(c)
      PROVE  Sweep \/ doomed' \subseteq doomed
  BY <1>16 DEF Insert, callerVars, bodyVars, reaperVars
<1>17. ASSUME ReaperWakes PROVE Sweep \/ doomed' \subseteq doomed
  BY <1>17 DEF ReaperWakes, callerVars, bodyVars, reaperVars
<1>18. ASSUME Sweep PROVE Sweep \/ doomed' \subseteq doomed
  BY <1>18
<1>19. ASSUME NEW b \in Ids, ReaperStops(b)
      PROVE  Sweep \/ doomed' \subseteq doomed
  BY <1>19 DEF ReaperStops, callerVars, bodyVars, reaperVars
<1>20. ASSUME NEW b \in Ids, LoopEnds(b)
      PROVE  Sweep \/ doomed' \subseteq doomed
  BY <1>20 DEF LoopEnds, callerVars, bodyVars, reaperVars
<1>21. ASSUME NEW b \in Ids, EngineExits(b)
      PROVE  Sweep \/ doomed' \subseteq doomed
  BY <1>21 DEF EngineExits, callerVars, bodyVars, reaperVars
<1>22. ASSUME NEW b \in Ids, GcloudBinds(b)
      PROVE  Sweep \/ doomed' \subseteq doomed
  BY <1>22 DEF GcloudBinds, callerVars, bodyVars, reaperVars
<1>23. ASSUME NEW b \in Ids, ClientConnects(b)
      PROVE  Sweep \/ doomed' \subseteq doomed
  BY <1>23 DEF ClientConnects, callerVars, bodyVars, reaperVars
<1>24. ASSUME NEW b \in Ids, ClientCloses(b)
      PROVE  Sweep \/ doomed' \subseteq doomed
  BY <1>24 DEF ClientCloses, callerVars, bodyVars, reaperVars
<1>25. ASSUME Tick PROVE Sweep \/ doomed' \subseteq doomed
  BY <1>25 DEF Tick, callerVars, bodyVars, reaperVars
<1>26. CASE UNCHANGED vars
  BY <1>26 DEF vars, callerVars, bodyVars, reaperVars
<1> QED
  BY <1>1, <1>2, <1>3, <1>4, <1>5, <1>6, <1>7, <1>8, <1>9, <1>10, <1>11, <1>12, <1>13,
     <1>14, <1>15, <1>16, <1>17, <1>18, <1>19, <1>20, <1>21, <1>22, <1>23, <1>24, <1>25, <1>26
     DEF Next, Starting, Call, Reaping, Environment

\* Whatever happens between the reaper's look at /proc and its lock, it removes
\* no tunnel with a connection it could have seen, and none that was handed out
\* or touched within the idle timeout less the slack.
THEOREM OnlyIdleIsReaped == Spec => ReapsOnlyIdle
<1> DEFINE I == Shape /\ Young /\ SparedSeen
<1>1. Init => I
  <2> SUFFICES ASSUME Init PROVE I
    OBVIOUS
  <2>1. Shape
    BY InitShape
  <2>2. Young /\ SparedSeen
    BY DEF Init, Young, SparedSeen
  <2> QED  BY <2>1, <2>2
<1>2. I /\ [Next]_vars => I'
  BY StepShape, StepYoung, StepSparedSeen
<1>3. I /\ [Next]_vars => [\A b \in doomed' \ doomed :
                             /\ b \notin spared
                             /\ since[b] + Slack > Idle]_vars
  BY SweepReapsIdle, OnlySweepDooms
<1> HIDE DEF I
<1> QED  BY <1>1, <1>2, <1>3, PTL DEF Spec, ReapsOnlyIdle

-----------------------------------------------------------------------------
(* ServiceImplemented: the refinement of TunnelService                     *)

\* The tunnels opened, or that failed to open.
Used == {b \in 1..made : b \notin Held}

ServiceNext == Service!Next \/ (reg' = reg /\ Used' = Used /\ key' = key)

\* A step that leaves the registry and the starts' hands alone is a stutter.
LEMMA ServiceStutters ==
  ASSUME UNCHANGED <<reg, made, mine, key>>
  PROVE  ServiceNext
  BY DEF ServiceNext, Used, Held

\* Entries that go away are closed.
LEMMA ServiceCloses ==
  ASSUME RegOK, RegOK', UNCHANGED <<made, mine, key>>,
         \A k \in Keys : reg'[k] \in {reg[k], None}
  PROVE  ServiceNext
<1> DEFINE S == {k \in Keys : reg'[k] = None}
<1>1. Used' = Used
  BY DEF Used, Held
<1>2. reg' = [k \in Keys |-> IF k \in S THEN None ELSE reg[k]]
  BY DEF RegOK
<1>3. Service!Close(S)
  BY <1>1, <1>2 DEF Service!Close, Service!None, None, Used
<1> QED  BY <1>3 DEF ServiceNext, Service!Next

\* A backend a start lets go of is used from then on, and was not before.
LEMMA UsedDone ==
  ASSUME Shape, NEW c \in Callers, Done(c), mine[c] \in Ids, UNCHANGED made
  PROVE  mine[c] \notin Used /\ Used' = Used \union {mine[c]}
<1>0. CallersOK /\ Created /\ Apart /\ made \in Nat
  BY ConstantsAssumption DEF Shape, TypeInv, BackendsOK
<1>1. \A d \in Callers : mine'[d] = IF d = c THEN None ELSE mine[d]
  BY <1>0, DoneEffect
<1>2. mine[c] \in 1..made
  <2>1. mine[c] <= made
    BY <1>0 DEF Created
  <2> QED  BY <1>0, <2>1 DEF Ids
<1>3. Held' = Held \ {mine[c]} /\ mine[c] \in Held
  BY <1>0, <1>1, IdsType DEF Held, Apart
<1> QED  BY <1>2, <1>3 DEF Used

\* The start is over, for the service too.
LEMMA ServiceOver ==
  ASSUME CallersOK, NEW c \in Callers, Done(c), step[c] # "idle"
  PROVE  Service!Over(c)
  BY DEF CallersOK, CallerShape, Done, Service!Over

\* A start that gives its backend up fails to open its key.
LEMMA ServiceFails ==
  ASSUME Shape, NEW c \in Callers, Done(c), mine[c] \in Ids, step[c] # "idle",
         UNCHANGED <<made, reg>>
  PROVE  ServiceNext
<1>1. mine[c] \notin Used /\ Used' = Used \union {mine[c]}
  BY UsedDone
<1>2. Service!Over(c)
  BY ServiceOver DEF Shape, TypeInv
<1>3. Service!Fail(c)
  BY <1>1, <1>2 DEF Service!Fail, Used
<1> QED  BY <1>3 DEF ServiceNext, Service!Next

\* So does one that never had a backend.
LEMMA ServiceNeverOpens ==
  ASSUME CallersOK, NEW c \in Callers, Done(c), mine[c] = None, step[c] # "idle",
         UNCHANGED <<made, reg>>
  PROVE  ServiceNext
<1>1. mine' = mine
  BY DEF CallersOK, Done
<1>2. Used' = Used
  BY <1>1 DEF Used, Held
<1>3. Service!Fail(c)
  BY <1>2, ServiceOver DEF Service!Fail, Used
<1> QED  BY <1>3 DEF ServiceNext, Service!Next

\* A new backend is in a start's hands, so not yet used.
LEMMA ServiceCreates ==
  ASSUME Shape, NEW c \in Callers, NEW e, NEW p, NEW s, Create(c, e, p, s)
  PROVE  ServiceNext
<1> DEFINE b == made + 1
<1>1. /\ made' = b /\ made \in Nat /\ b \in Ids
      /\ mine' = [mine EXCEPT ![c] = b] /\ mine \in [Callers -> Ids \union {None}]
      /\ mine[c] = None /\ reg' = reg /\ key' = key
  BY ConstantsAssumption DEF Create, Shape, TypeInv, BackendsOK, CallersOK, CallerShape
<1>2. 1..made' = (1..made) \union {b} /\ b \notin 1..made
  BY <1>1
<1> HIDE DEF b
<1>3. Held' = Held \union {b}
  BY <1>1, IdsType DEF Held
<1> QED  BY <1>1, <1>2, <1>3 DEF ServiceNext, Used

\* The insertion opens the key.
LEMMA ServiceOpens ==
  ASSUME Shape, NEW c \in Callers, Insert(c)
  PROVE  ServiceNext
<1>0. TypeInv /\ RegOK /\ CallersOK
  BY DEF Shape, TypeInv
<1>1. key[c] \in Keys /\ mine[c] \in Ids
  BY <1>0, InsertEffect
<1>2. Done(c) /\ UNCHANGED made /\ reg' = [reg EXCEPT ![key[c]] = mine[c]] /\ step[c] # "idle"
  BY DEF Insert
<1>3. mine[c] \notin Used /\ Used' = Used \union {mine[c]}
  BY <1>1, <1>2, UsedDone
<1>4. Service!Over(c)
  BY <1>0, <1>2, ServiceOver
<1>5. Service!Open(c, mine[c])
  BY <1>2, <1>3, <1>4 DEF Service!Open, Used
<1>6. Service!Next
  <2>1. \E b \in Ids : Service!Open(c, b)
    BY <1>1, <1>5 DEF Service!Open
  <2> QED  BY <2>1 DEF Service!Next
<1> QED  BY <1>6 DEF ServiceNext

\* Every step of the registry is a step of the service, or none.
LEMMA StepService ==
  ASSUME Shape, [Next]_vars
  PROVE  ServiceNext
<1>0. TypeInv /\ CallersOK /\ RegOK /\ RegOK' /\ BackendsOK
  BY StepType DEF Shape, TypeInv
<1>1. ASSUME NEW k \in Keys, Reuse(k)
      PROVE  ServiceNext
  BY <1>1, <1>0, ServiceStutters DEF Reuse, callerVars, bodyVars, reaperVars
<1>2. ASSUME NEW k \in Keys, Stop(k)
      PROVE  ServiceNext
  BY <1>2, <1>0, ServiceCloses DEF Stop, RegOK, callerVars, bodyVars, reaperVars
<1>3. ASSUME NEW k \in Keys, CheckHealth(k)
      PROVE  ServiceNext
  BY <1>3, <1>0, ServiceStutters DEF CheckHealth, callerVars, bodyVars, reaperVars
<1>4. ASSUME NEW c \in Callers, NEW k \in Keys, Begin(c, k)
      PROVE  ServiceNext
  <2>1. UNCHANGED <<reg, made, mine>> /\ reg[k] = None /\ step[c] = "idle"
        /\ key' = [key EXCEPT ![c] = k]
    BY <1>4 DEF Begin, bodyVars
  <2>2. key[c] = NoKey /\ Used' = Used
    BY <1>0, <2>1 DEF CallersOK, CallerShape, Used, Held
  <2>3. Service!Begin(c, k)
    BY <2>1, <2>2 DEF Service!Begin, Service!None, None, Used
  <2> QED  BY <2>3 DEF ServiceNext, Service!Next
<1>5. ASSUME Cleanup PROVE ServiceNext
  BY <1>5, <1>0, ServiceCloses DEF Cleanup, RegOK, callerVars, bodyVars, reaperVars
<1>6. ASSUME NEW p \in Ports, Touch(p)
      PROVE  ServiceNext
  BY <1>6, <1>0, ServiceStutters DEF Touch, callerVars, bodyVars, reaperVars
<1>7. ASSUME NEW c \in Callers, BuildFails(c)
      PROVE  ServiceNext
  <2>1. UNCHANGED <<reg, made>> /\ Done(c) /\ mine[c] = None /\ step[c] # "idle"
    BY <1>0, <1>7 DEF BuildFails, bodyVars, CallersOK, CallerShape
  <2> QED  BY <1>0, <2>1, ServiceNeverOpens
<1>8. ASSUME NEW c \in Callers, NEW p \in Ports, NativeBinds(c, p)
      PROVE  ServiceNext
  BY <1>8, ServiceCreates DEF NativeBinds
<1>9. ASSUME NEW c \in Callers, NEW p \in Ports, ForwardUp(c, p)
      PROVE  ServiceNext
  BY <1>9, ServiceCreates DEF ForwardUp
<1>10. ASSUME NEW c \in Callers, NEW p \in Ports, GcloudSpawns(c, p)
      PROVE  ServiceNext
  BY <1>10, ServiceCreates DEF GcloudSpawns
<1>11. ASSUME NEW c \in Callers, NativeProbeFails(c)
      PROVE  ServiceNext
  BY <1>11, <1>0, ServiceFails, MineType DEF NativeProbeFails, callerVars, bodyVars, reaperVars
<1>12. ASSUME NEW c \in Callers, NativeReady(c)
      PROVE  ServiceNext
  BY <1>12, <1>0, ServiceStutters DEF NativeReady, callerVars, bodyVars, reaperVars
<1>13. ASSUME NEW c \in Callers, GcloudSettles(c)
      PROVE  ServiceNext
  <2>1. mine[c] \in Ids /\ step[c] # "idle" /\ UNCHANGED <<reg, made>>
    BY <1>0, <1>13, MineType DEF GcloudSettles, bodyVars
  <2>2. CASE Alive(mine[c])
    BY <1>13, <2>1, <2>2, ServiceStutters DEF GcloudSettles
  <2>3. CASE ~Alive(mine[c])
    BY <1>13, <2>1, <2>3, ServiceFails DEF GcloudSettles
  <2> QED  BY <2>2, <2>3
<1>14. ASSUME NEW c \in Callers, PollEngine(c)
      PROVE  ServiceNext
  <2>1. mine[c] \in Ids /\ step[c] # "idle" /\ UNCHANGED <<reg, made>>
    BY <1>0, <1>14, MineType DEF PollEngine, bodyVars
  <2>2. CASE (polls[c] < MaxPolls /\ Alive(mine[c]))
    BY <1>14, <2>1, <2>2, ServiceStutters DEF PollEngine
  <2>3. CASE ~(polls[c] < MaxPolls /\ Alive(mine[c]))
    BY <1>14, <2>1, <2>3, ServiceFails DEF PollEngine
  <2> QED  BY <2>2, <2>3
<1>15. ASSUME NEW c \in Callers, PollPort(c)
      PROVE  ServiceNext
  BY <1>15, <1>0, ServiceStutters DEF PollPort, callerVars, bodyVars, reaperVars
<1>16. ASSUME NEW c \in Callers, Insert(c)
      PROVE  ServiceNext
  BY <1>16, ServiceOpens
<1>17. ASSUME ReaperWakes PROVE ServiceNext
  BY <1>17, <1>0, ServiceStutters DEF ReaperWakes, callerVars, bodyVars, reaperVars
<1>18. ASSUME Sweep PROVE ServiceNext
  BY <1>18, <1>0, ServiceCloses DEF Sweep, RegOK, callerVars, bodyVars, reaperVars
<1>19. ASSUME NEW b \in Ids, ReaperStops(b)
      PROVE  ServiceNext
  BY <1>19, <1>0, ServiceStutters DEF ReaperStops, callerVars, bodyVars, reaperVars
<1>20. ASSUME NEW b \in Ids, LoopEnds(b)
      PROVE  ServiceNext
  BY <1>20, <1>0, ServiceStutters DEF LoopEnds, callerVars, bodyVars, reaperVars
<1>21. ASSUME NEW b \in Ids, EngineExits(b)
      PROVE  ServiceNext
  BY <1>21, <1>0, ServiceStutters DEF EngineExits, callerVars, bodyVars, reaperVars
<1>22. ASSUME NEW b \in Ids, GcloudBinds(b)
      PROVE  ServiceNext
  BY <1>22, <1>0, ServiceStutters DEF GcloudBinds, callerVars, bodyVars, reaperVars
<1>23. ASSUME NEW b \in Ids, ClientConnects(b)
      PROVE  ServiceNext
  BY <1>23, <1>0, ServiceStutters DEF ClientConnects, callerVars, bodyVars, reaperVars
<1>24. ASSUME NEW b \in Ids, ClientCloses(b)
      PROVE  ServiceNext
  BY <1>24, <1>0, ServiceStutters DEF ClientCloses, callerVars, bodyVars, reaperVars
<1>25. ASSUME Tick PROVE ServiceNext
  BY <1>25, <1>0, ServiceStutters DEF Tick, callerVars, bodyVars, reaperVars
<1>26. CASE UNCHANGED vars
  BY <1>26, ServiceStutters DEF vars, callerVars, bodyVars, reaperVars
<1> QED
  BY <1>1, <1>2, <1>3, <1>4, <1>5, <1>6, <1>7, <1>8, <1>9, <1>10, <1>11, <1>12, <1>13,
     <1>14, <1>15, <1>16, <1>17, <1>18, <1>19, <1>20, <1>21, <1>22, <1>23, <1>24, <1>25, <1>26
     DEF Next, Starting, Call, Reaping, Environment

\* Whichever starts come through the single flight and however they overlap,
\* the registry keeps the promise of TunnelService: a tunnel is its key's until
\* it is closed or until a start opens the key that had begun while the key had
\* none, and no tunnel is opened twice or comes back.
THEOREM ServiceImplemented == Spec => ServiceSpec
<1>1. Init => Shape
  BY InitShape
<1>2. Shape /\ [Next]_vars => Shape'
  BY StepShape
<1>3. Init => Service!Init
  <2> SUFFICES ASSUME Init PROVE Service!Init
    OBVIOUS
  <2>1. Used = {}
    BY DEF Init, Used
  <2> QED  BY <2>1 DEF Init, Service!Init, Service!None, None, Used
<1>4. Shape /\ [Next]_vars =>
        [Service!Next]_<<reg, {b \in 1..made : b \notin Held}, key>>
  BY StepService DEF ServiceNext, Used
<1> QED  BY <1>1, <1>2, <1>3, <1>4, PTL DEF Spec, ServiceSpec, Service!Spec, Service!vars

===============================================================================
