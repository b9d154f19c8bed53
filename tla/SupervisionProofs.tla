--------------------------- MODULE SupervisionProofs ---------------------------
(***************************************************************************)
(* A system that trades is watched, and events are not multiplied, for any *)
(* number of coroutines, listeners and requests.                          *)
(***************************************************************************)
EXTENDS Supervision, FiniteSetTheorems, TLAPS

Errands == {"nothing", "supervise", "stop", "start"} \cup Restarts

Coroutine ==
  [does : Errands,
   at : {"nowhere", "asleep", "pausing", "connecting", "closing"}]

TypeInv ==
  /\ co \in [Coroutines -> Coroutine]
  /\ listeners \subseteq Listeners /\ newest \subseteq Listeners
  /\ newest = {} \/ \E l \in Listeners : newest = {l}
  /\ crossed \in Nat

Connecting == At("connecting")

(* A supervisor that believes it runs has a loop; a system that runs       *)
(* without one has a start that connects, or was frozen by the start that *)
(* returned early, and no execution of its own can lift that.             *)
Watched ==
  /\ supervising => Loops # {}
  /\ running /\ ~ supervising /\ Connecting = {} =>
       vouched \/ (status \in {"FROZEN", "BOOTSTRAPPING"} /\ executing \in {"none", "older"})

(* Listeners nobody can cancel any more, and whether the newest listens.   *)
Orphans == listeners \ newest
Live == IF newest \cap listeners = {} THEN 0 ELSE 1

(* A connecting start stands for the listener it will add.                 *)
Counted ==
  \/ crossed = MaxCrossed
  \/ /\ Cardinality(Orphans) + Cardinality(Connecting) + Live <= crossed + 1
     /\ ~ running => Cardinality(Orphans) + Cardinality(Connecting) <= crossed
     /\ Connecting = {} => Cardinality(Orphans) <= crossed

Cancellable == ~ streaming => newest \cap listeners = {}

IInv == TypeInv /\ Watched /\ Cancellable /\ Counted

-----------------------------------------------------------------------------
(* Sizes of the sets that are counted.                                    *)
LEMMA SizesAreNumbers ==
  ASSUME TypeInv
  PROVE  /\ IsFiniteSet(listeners) /\ IsFiniteSet(Orphans) /\ IsFiniteSet(Connecting)
         /\ Cardinality(listeners) \in Nat /\ Cardinality(Orphans) \in Nat
         /\ Cardinality(Connecting) \in Nat /\ Live \in {0, 1} /\ crossed \in Nat
         /\ Cardinality(Connecting) = 0 <=> Connecting = {}
<1>1. listeners \in SUBSET Listeners /\ Orphans \in SUBSET Listeners
      /\ Connecting \in SUBSET Coroutines
  BY DEF TypeInv, Orphans, Connecting, At
<1>2. IsFiniteSet(listeners) /\ IsFiniteSet(Orphans) /\ IsFiniteSet(Connecting)
  BY <1>1, FiniteAssumption, FS_Subset
<1> QED
  BY <1>2, FS_CardinalityType, FS_EmptySet DEF Live, TypeInv

(* All listeners are orphans but the newest.                              *)
LEMMA ListenersAreCounted ==
  ASSUME TypeInv
  PROVE  Cardinality(listeners) <= Cardinality(Orphans) + Live
<1>1. CASE newest \cap listeners = {}
  <2>1. listeners = Orphans
    BY <1>1 DEF Orphans
  <2> QED
    BY <1>1, <2>1, SizesAreNumbers DEF Live
<1>2. CASE newest \cap listeners # {}
  <2>1. PICK l \in Listeners : newest = {l}
    BY <1>2 DEF TypeInv
  <2>2. listeners = Orphans \cup {l} /\ l \notin Orphans /\ Live = 1
    BY <1>2, <2>1 DEF Orphans, Live
  <2>3. Cardinality(Orphans \cup {l}) = Cardinality(Orphans) + 1
    BY <2>2, SizesAreNumbers, FS_AddElement
  <2> QED
    BY <2>2, <2>3, SizesAreNumbers
<1> QED
  BY <1>1, <1>2

(* Steps that change neither a listener nor what connects.                *)
LEMMA StreamUntouched ==
  ASSUME IInv, UNCHANGED <<streaming, listeners, newest, crossed>>, Connecting' = Connecting,
         running' = running \/ running' = TRUE
  PROVE  Cancellable' /\ Counted'
BY DEF IInv, Cancellable, Counted, Orphans, Live, MaxCrossed

(* A stop.                                                                *)
LEMMA HaltKeeps ==
  ASSUME IInv, Halt, Connecting' = Connecting, co' \in [Coroutines -> Coroutine]
  PROVE  IInv'
<1>1. /\ running' = FALSE /\ supervising' = FALSE
      /\ listeners' = listeners \ newest /\ newest' = newest
      /\ crossed' = IF Connecting = {} \/ crossed = MaxCrossed THEN crossed ELSE crossed + 1
  BY DEF Halt, SupervisorHalted, Cancelled, Connecting
<1>2. TypeInv'
  BY <1>1 DEF IInv, TypeInv
<1>3. Watched'
  BY <1>1 DEF Watched
<1>4. newest' \cap listeners' = {} /\ Orphans' = Orphans
  BY <1>1 DEF Orphans
<1>5. Cancellable'
  BY <1>4 DEF Cancellable
<1>6. Live' = 0
  BY <1>4 DEF Live
<1>7. MaxCrossed' = MaxCrossed
  BY DEF MaxCrossed
<1>8. Counted'
  <2>1. CASE crossed = MaxCrossed
    BY <2>1, <1>1, <1>7 DEF Counted
  <2>2. CASE crossed # MaxCrossed
    <3>1. /\ Cardinality(Orphans) + Cardinality(Connecting) + Live <= crossed + 1
          /\ Connecting = {} => Cardinality(Orphans) <= crossed
      BY <2>2 DEF IInv, Counted
    <3>2. /\ Cardinality(Orphans) \in Nat /\ Cardinality(Connecting) \in Nat
          /\ Live \in {0, 1} /\ crossed \in Nat
          /\ (Cardinality(Connecting) = 0 <=> Connecting = {})
      BY SizesAreNumbers DEF IInv
    <3>3. /\ Cardinality(Orphans) + Cardinality(Connecting) <= crossed'
          /\ Cardinality(Orphans) <= crossed'
          /\ Cardinality(Orphans) + Cardinality(Connecting) + 0 <= crossed' + 1
      BY <3>1, <3>2, <2>2, <1>1
    <3> QED
      BY <3>3, <1>4, <1>6 DEF Counted
  <2> QED
    BY <2>1, <2>2
<1> QED
  BY <1>2, <1>3, <1>5, <1>8 DEF IInv

-----------------------------------------------------------------------------
(* Where coroutines are after a step.                                     *)
Places(f, place) == {c \in Coroutines : f[c].at = place}

LEMMA SlotsAreCoroutines ==
  /\ Idle \in Coroutine /\ Idle.at = "nowhere"
  /\ Loop \in Coroutine /\ Loop.at = "asleep"
BY DEF Idle, Loop, Coroutine, Errands

(* The caller of start() goes on or is gone.                              *)
LEMMA ContinueIs ==
  ASSUME TypeInv, NEW c \in Coroutines, co[c].at # "asleep", NEW does
  PROVE  /\ Continue(c, does) \in [Coroutines -> Coroutine]
         /\ Places(Continue(c, does), "connecting") = Connecting \ {c}
         /\ Loops \subseteq Places(Continue(c, does), "asleep")
<1> DEFINE x == IF does = "drifted" THEN Loop ELSE Idle
           g == [co EXCEPT ![c] = x]
<1>1. x \in Coroutine /\ x.at # "connecting"
  BY SlotsAreCoroutines
<1>2. g = [co EXCEPT ![c] = x] /\ co \in [Coroutines -> Coroutine]
  BY DEF TypeInv
<1> HIDE DEF x, g
<1>3. g \in [Coroutines -> Coroutine] /\ Places(g, "connecting") = Places(co, "connecting") \ {c}
  BY <1>1, <1>2 DEF Places
<1>4. Places(co, "asleep") \subseteq Places(g, "asleep")
  BY <1>1, <1>2 DEF Places
<1>5. g = Continue(c, does)
  BY DEF g, x, Continue
<1> QED
  BY <1>3, <1>4, <1>5 DEF Places, Loops, Connecting, At

LEMMA SuperviseIs ==
  ASSUME NEW next \in [Coroutines -> Coroutine], Supervise(next),
         supervising => Places(next, "asleep") # {}
  PROVE  /\ co' \in [Coroutines -> Coroutine] /\ supervising'
         /\ Loops' # {} /\ Connecting' = Places(next, "connecting")
<1>1. CASE supervising /\ co' = next
  BY <1>1 DEF Supervise, Places, Loops, Connecting, At
<1>2. CASE ~ supervising
  <2>1. PICK d \in Coroutines : next[d] = Idle /\ co' = [next EXCEPT ![d] = Loop]
    BY <1>2 DEF Supervise
  <2>2. /\ co' \in [Coroutines -> Coroutine]
        /\ Places(co', "asleep") = Places(next, "asleep") \cup {d}
        /\ Places(co', "connecting") = Places(next, "connecting") \ {d}
    <3> DEFINE coNext == co'
    <3>1. coNext = [next EXCEPT ![d] = Loop]
      BY <2>1
    <3> HIDE DEF coNext
    <3>2. /\ coNext \in [Coroutines -> Coroutine]
          /\ Places(coNext, "asleep") = Places(next, "asleep") \cup {d}
      BY <3>1, SlotsAreCoroutines DEF Places
    <3>3. Places(coNext, "connecting") = Places(next, "connecting") \ {d}
      BY <3>1, SlotsAreCoroutines DEF Places
    <3> QED
      BY <3>2, <3>3 DEF coNext
  <2>3. d \notin Places(next, "connecting")
    BY <2>1, SlotsAreCoroutines DEF Places
  <2> QED
    BY <2>2, <2>3 DEF Supervise, Places, Loops, Connecting, At
<1> QED
  BY <1>1, <1>2 DEF Supervise

(* start(), called where nothing sleeps or connects.                      *)
LEMMA StartKeeps ==
  ASSUME IInv, NEW c \in Coroutines, co[c].at \in {"nowhere", "pausing"},
         NEW does \in Errands, Start(c, does)
  PROVE  IInv'
<1>1. c \notin Connecting /\ c \notin Loops
  BY DEF Connecting, Loops, At
<1>2. /\ Continue(c, does) \in [Coroutines -> Coroutine]
      /\ Places(Continue(c, does), "connecting") = Connecting
      /\ Loops \subseteq Places(Continue(c, does), "asleep")
  <2>1. TypeInv /\ co[c].at # "asleep"
    BY DEF IInv
  <2>2. /\ Continue(c, does) \in [Coroutines -> Coroutine]
        /\ Places(Continue(c, does), "connecting") = Connecting \ {c}
        /\ Loops \subseteq Places(Continue(c, does), "asleep")
    BY <2>1, ContinueIs
  <2> QED
    BY <2>2, <1>1
<1>3. CASE StartAgain(c, does)
  <2>1. /\ co' = Continue(c, does) /\ running /\ UNCHANGED <<executing, status, vouched>>
        /\ UNCHANGED <<running, supervising, streaming, listeners, newest, crossed>>
    BY <1>3 DEF StartAgain, flags, stream
  <2>2. Connecting' = Connecting /\ Loops \subseteq Loops'
    BY <2>1, <1>2 DEF Connecting, Loops, At, Places
  <2>3. TypeInv'
    BY <2>1, <1>2 DEF IInv, TypeInv
  <2>4. Watched'
    BY <2>1, <2>2 DEF IInv, Watched
  <2> QED
    BY <2>1, <2>2, <2>3, <2>4, StreamUntouched DEF IInv
<1>4. CASE StartFails(c, does)
  <2>1. /\ co' = Continue(c, does) /\ running' = TRUE
        /\ status' \in {"BOOTSTRAPPING", "FROZEN"} /\ executing' \in {"none", "older"}
        /\ UNCHANGED <<supervising, streaming, listeners, newest, crossed>>
    BY <1>4 DEF StartFails, Guarded, Outlived, stream
  <2>2. Connecting' = Connecting /\ Loops \subseteq Loops'
    BY <2>1, <1>2 DEF Connecting, Loops, At, Places
  <2>3. TypeInv'
    BY <2>1, <1>2 DEF IInv, TypeInv
  <2>4. Watched'
    BY <2>1, <2>2 DEF IInv, Watched
  <2> QED
    BY <2>1, <2>2, <2>3, <2>4, StreamUntouched DEF IInv
<1>5. CASE StartConnects(c, does)
  <2> DEFINE x == [does |-> does, at |-> "connecting"]
  <2>1. /\ ~ running /\ ~ streaming /\ running' = TRUE /\ co' = [co EXCEPT ![c] = x]
        /\ UNCHANGED <<supervising, streaming, listeners, newest, crossed>>
    BY <1>5 DEF StartConnects, Guarded, stream
  <2>2. x \in Coroutine /\ x.at = "connecting"
    BY DEF Coroutine
  <2> HIDE DEF x
  <2>3. /\ co' \in [Coroutines -> Coroutine]
        /\ Places(co', "connecting") = Places(co, "connecting") \cup {c}
        /\ Places(co', "asleep") = Places(co, "asleep") \ {c}
    <3>1. co \in [Coroutines -> Coroutine]
      BY DEF IInv, TypeInv
    <3> QED
      BY <2>1, <2>2, <3>1 DEF Places
  <2>4. Connecting' = Connecting \cup {c} /\ Loops' = Loops
    BY <2>3, <1>1 DEF Connecting, Loops, At, Places
  <2>5. TypeInv'
    BY <2>1, <2>3 DEF IInv, TypeInv
  <2>6. Watched'
    BY <2>1, <2>4 DEF IInv, Watched
  <2>7. Cancellable' /\ Live = 0 /\ Live' = 0 /\ Orphans' = Orphans /\ MaxCrossed' = MaxCrossed
    BY <2>1 DEF IInv, Cancellable, Live, Orphans, MaxCrossed
  <2>8. Cardinality(Connecting') = Cardinality(Connecting) + 1
    BY <2>4, <1>1, SizesAreNumbers, FS_AddElement DEF IInv
  <2>9. Counted'
    <3>1. CASE crossed = MaxCrossed
      BY <3>1, <2>1, <2>7 DEF Counted
    <3>2. CASE crossed # MaxCrossed
      <4>1. Cardinality(Orphans) + Cardinality(Connecting) <= crossed
        BY <3>2, <2>1 DEF IInv, Counted
      <4>2. Cardinality(Orphans') + Cardinality(Connecting') + Live' <= crossed' + 1
        BY <4>1, <2>1, <2>7, <2>8, SizesAreNumbers DEF IInv
      <4> QED
        BY <4>2, <2>1, <2>4 DEF Counted
    <3> QED
      BY <3>1, <3>2
  <2> QED
    BY <2>5, <2>6, <2>7, <2>9 DEF IInv
<1>6. CASE StartConnected(c, does)
  <2>1. /\ running' = TRUE /\ Supervise(Continue(c, does))
        /\ UNCHANGED <<streaming, listeners, newest, crossed>>
    BY <1>6 DEF StartConnected, Guarded, stream
  <2>2. supervising => Places(Continue(c, does), "asleep") # {}
    BY <1>2 DEF IInv, Watched
  <2>3. /\ co' \in [Coroutines -> Coroutine] /\ supervising'
        /\ Loops' # {} /\ Connecting' = Connecting
    BY <2>1, <2>2, <1>2, SuperviseIs
  <2>4. TypeInv'
    BY <2>1, <2>3 DEF IInv, TypeInv
  <2>5. Watched'
    BY <2>3 DEF Watched
  <2> QED
    BY <2>1, <2>3, <2>4, <2>5, StreamUntouched DEF IInv
<1> QED
  BY <1>3, <1>4, <1>5, <1>6 DEF Start

(* A start whose connection is made, or could not be.                     *)
LEMMA ConnectedKeeps ==
  ASSUME IInv, NEW c \in Coroutines, Connected(c)
  PROVE  IInv'
<1>1. /\ c \in Connecting /\ co[c].at # "asleep"
      /\ Supervise(Continue(c, co[c].does)) /\ UNCHANGED <<running, crossed>>
  BY DEF Connected, Connecting, At
<1>2. /\ Continue(c, co[c].does) \in [Coroutines -> Coroutine]
      /\ Places(Continue(c, co[c].does), "connecting") = Connecting \ {c}
      /\ Loops \subseteq Places(Continue(c, co[c].does), "asleep")
  BY <1>1, ContinueIs DEF IInv
<1>3. /\ co' \in [Coroutines -> Coroutine] /\ supervising'
      /\ Loops' # {} /\ Connecting' = Connecting \ {c}
  BY <1>1, <1>2, SuperviseIs DEF IInv, Watched
<1>4. Watched'
  BY <1>3 DEF Watched
<1>5. /\ Cardinality(Connecting') = Cardinality(Connecting) - 1 /\ MaxCrossed' = MaxCrossed
      /\ Connecting # {}
  BY <1>1, <1>3, SizesAreNumbers, FS_RemoveElement DEF IInv, MaxCrossed
<1>6. CASE UNCHANGED <<streaming, listeners, newest>>
  <2>1. TypeInv' /\ Cancellable' /\ Orphans' = Orphans /\ Live' = Live
    BY <1>1, <1>3, <1>6 DEF IInv, TypeInv, Cancellable, Orphans, Live
  <2>2. Counted'
    <3>1. CASE crossed = MaxCrossed
      BY <3>1, <1>1, <1>5 DEF Counted
    <3>2. CASE crossed # MaxCrossed
      <4>1. /\ Cardinality(Orphans) + Cardinality(Connecting) + Live <= crossed + 1
            /\ ~ running => Cardinality(Orphans) + Cardinality(Connecting) <= crossed
        BY <3>2 DEF IInv, Counted
      <4>2. /\ Cardinality(Orphans) + (Cardinality(Connecting) - 1) + Live <= crossed + 1
            /\ ~ running => Cardinality(Orphans) + (Cardinality(Connecting) - 1) <= crossed
            /\ Cardinality(Connecting) # 0 => Cardinality(Orphans) <= crossed
        BY <4>1, SizesAreNumbers DEF IInv
      <4>3. Cardinality(Connecting) # 0
        BY <1>5, SizesAreNumbers DEF IInv
      <4> QED
        BY <4>2, <4>3, <2>1, <1>1, <1>5 DEF Counted
    <3> QED
      BY <3>1, <3>2
  <2> QED
    BY <1>4, <2>1, <2>2 DEF IInv
<1>7. CASE Listens
  <2>1. PICK l \in Listeners \ listeners :
          streaming' = TRUE /\ listeners' = listeners \cup {l} /\ newest' = {l}
    BY <1>7 DEF Listens
  <2>2. TypeInv' /\ Cancellable' /\ Orphans' = listeners /\ Live' = 1
    BY <1>1, <1>3, <2>1 DEF IInv, TypeInv, Cancellable, Orphans, Live
  <2>3. Cardinality(listeners) <= Cardinality(Orphans) + Live
    BY ListenersAreCounted DEF IInv
  <2>4. Counted'
    <3>1. CASE crossed = MaxCrossed
      BY <3>1, <1>1, <1>5 DEF Counted
    <3>2. CASE crossed # MaxCrossed
      <4>1. Cardinality(Orphans) + Cardinality(Connecting) + Live <= crossed + 1
        BY <3>2 DEF IInv, Counted
      <4>2. Cardinality(Connecting) # 0
        BY <1>5, SizesAreNumbers DEF IInv
      <4>3. /\ Cardinality(listeners) + (Cardinality(Connecting) - 1) + 1 <= crossed + 1
            /\ Cardinality(listeners) + (Cardinality(Connecting) - 1) <= crossed
            /\ Cardinality(listeners) <= crossed
        BY <4>1, <4>2, <2>3, SizesAreNumbers DEF IInv
      <4> QED
        BY <4>3, <2>2, <1>1, <1>5 DEF Counted
    <3> QED
      BY <3>1, <3>2
  <2> QED
    BY <1>4, <2>2, <2>4 DEF IInv
<1> QED
  BY <1>6, <1>7 DEF Connected

-----------------------------------------------------------------------------
(* A step that moves no coroutine, raises no flag and counts nothing.      *)
LEMMA StateChanges ==
  ASSUME IInv, UNCHANGED <<co, flags, stream>>,
         supervising \/ vouched' \/ (~ vouched /\ UNCHANGED <<executing, state>>)
           \/ (status' \in {"FROZEN", "BOOTSTRAPPING"} /\ executing' \in {"none", "older"})
           \/ ~ (running /\ ~ supervising /\ Connecting = {})
  PROVE  IInv'
<1>1. /\ UNCHANGED <<running, supervising, streaming, listeners, newest, crossed>>
      /\ Connecting' = Connecting /\ Loops' = Loops
  BY DEF flags, stream, Connecting, Loops, At
<1>2. TypeInv'
  BY <1>1 DEF IInv, TypeInv
<1>3. Watched'
  BY <1>1 DEF IInv, Watched, state
<1> QED
  BY <1>1, <1>2, <1>3, StreamUntouched DEF IInv

(* A coroutine that goes elsewhere without a connection.                   *)
LEMMA MovedIs ==
  ASSUME TypeInv, NEW c \in Coroutines, c \notin Connecting,
         NEW x \in Coroutine, x.at # "connecting", co' = [co EXCEPT ![c] = x]
  PROVE  /\ co' \in [Coroutines -> Coroutine] /\ Connecting' = Connecting
         /\ c \notin Loops => Loops \subseteq Loops'
<1>1. co \in [Coroutines -> Coroutine] /\ co[c].at # "connecting"
  BY DEF TypeInv, Connecting, At
<1> QED
  BY <1>1 DEF Connecting, Loops, At

LEMMA RestartKeeps ==
  ASSUME IInv, NEW c \in Coroutines, NEW does \in Restarts,
         co[c] \in {Idle, Loop}, RestartBegins(c, does)
  PROVE  IInv'
<1> DEFINE x == [does |-> does, at |-> "pausing"]
<1>1. x \in Coroutine /\ x.at # "connecting" /\ co' = [co EXCEPT ![c] = x] /\ Halt
  BY DEF Coroutine, Errands, RestartBegins
<1> HIDE DEF x
<1>2. c \notin Connecting
  BY SlotsAreCoroutines DEF Connecting, At
<1>3. co' \in [Coroutines -> Coroutine] /\ Connecting' = Connecting
  BY <1>1, <1>2, MovedIs DEF IInv
<1> QED
  BY <1>1, <1>3, HaltKeeps

LEMMA StopKeeps ==
  ASSUME IInv, NEW c \in Coroutines, StopLive(c)
  PROVE  IInv'
<1> DEFINE x == [does |-> "stop", at |-> "closing"]
<1>1. x \in Coroutine /\ x.at # "connecting" /\ co' = [co EXCEPT ![c] = x] /\ Halt
  BY DEF Coroutine, Errands, StopLive
<1> HIDE DEF x
<1>2. c \notin Connecting
  BY SlotsAreCoroutines DEF Connecting, At, StopLive
<1>3. co' \in [Coroutines -> Coroutine] /\ Connecting' = Connecting
  BY <1>1, <1>2, MovedIs DEF IInv
<1> QED
  BY <1>1, <1>3, HaltKeeps

(* A coroutine that ends: a loop without its flag, or a stop.              *)
LEMMA EndKeeps ==
  ASSUME IInv, NEW c \in Coroutines, LoopEnds(c) \/ StopLiveEnds(c)
  PROVE  IInv'
<1>1. /\ co' = [co EXCEPT ![c] = Idle] /\ UNCHANGED <<executing, status, vouched>>
      /\ UNCHANGED <<running, supervising, streaming, listeners, newest, crossed>>
      /\ (co[c] = Loop /\ ~ supervising) \/ co[c].at = "closing"
  BY DEF LoopEnds, StopLiveEnds, state, flags, stream
<1>2. Idle \in Coroutine /\ Idle.at # "connecting" /\ c \notin Connecting
  BY <1>1, SlotsAreCoroutines DEF Connecting, At
<1>3. /\ co' \in [Coroutines -> Coroutine] /\ Connecting' = Connecting
      /\ c \notin Loops => Loops \subseteq Loops'
  BY <1>1, <1>2, MovedIs DEF IInv
<1>4. TypeInv'
  BY <1>1, <1>3 DEF IInv, TypeInv
<1>5. supervising => Loops' # {}
  BY <1>1, <1>3 DEF IInv, Watched, Loops, At
<1>6. Watched'
  BY <1>1, <1>3, <1>5 DEF IInv, Watched
<1> QED
  BY <1>1, <1>3, <1>4, <1>6, StreamUntouched DEF IInv

LEMMA ListenerEndsKeeps ==
  ASSUME IInv, NEW l \in Listeners, ListenerEnds(l)
  PROVE  IInv'
<1>1. /\ listeners' = listeners \ {l}
      /\ UNCHANGED <<co, executing, status, vouched, newest, crossed>>
      /\ UNCHANGED <<running, supervising, streaming>>
  BY DEF ListenerEnds, state, flags
<1>2. /\ Connecting' = Connecting /\ Loops' = Loops /\ MaxCrossed' = MaxCrossed
      /\ Orphans' \subseteq Orphans
  BY <1>1 DEF Connecting, Loops, At, MaxCrossed, Orphans
<1>3. TypeInv' /\ Watched' /\ Cancellable'
  BY <1>1, <1>2 DEF IInv, TypeInv, Watched, Cancellable
<1>4. Cardinality(Orphans') <= Cardinality(Orphans)
  BY <1>2, SizesAreNumbers, FS_Subset DEF IInv
<1>5. Cardinality(Orphans') \in Nat /\ Live' \in {0, 1}
  <2>1. IsFiniteSet(Orphans')
    BY <1>2, SizesAreNumbers, FS_Subset DEF IInv
  <2> QED
    BY <2>1, FS_CardinalityType DEF Live
<1>6. Live' <= Live
  BY <1>1, <1>5 DEF Live
<1>7. Counted'
  <2>1. CASE crossed = MaxCrossed
    BY <2>1, <1>1, <1>2 DEF Counted
  <2>2. CASE crossed # MaxCrossed
    <3>1. /\ Cardinality(Orphans) + Cardinality(Connecting) + Live <= crossed + 1
          /\ ~ running => Cardinality(Orphans) + Cardinality(Connecting) <= crossed
          /\ Connecting = {} => Cardinality(Orphans) <= crossed
      BY <2>2 DEF IInv, Counted
    <3>2. /\ Cardinality(Orphans) \in Nat /\ Cardinality(Connecting) \in Nat
          /\ Live \in {0, 1} /\ crossed \in Nat
      BY SizesAreNumbers DEF IInv
    <3>3. /\ Cardinality(Orphans') + Cardinality(Connecting) + Live' <= crossed + 1
          /\ ~ running => Cardinality(Orphans') + Cardinality(Connecting) <= crossed
          /\ Connecting = {} => Cardinality(Orphans') <= crossed
      BY <3>1, <3>2, <1>4, <1>5, <1>6
    <3> QED
      BY <3>3, <1>1, <1>2 DEF Counted
  <2> QED
    BY <2>1, <2>2
<1> QED
  BY <1>3, <1>7 DEF IInv

-----------------------------------------------------------------------------
LEMMA InitInvariant == Init => IInv
<1> SUFFICES ASSUME Init PROVE IInv
  OBVIOUS
<1>1. TypeInv
  BY SlotsAreCoroutines DEF Init, TypeInv
<1>2. Connecting = {} /\ Orphans = {} /\ Live = 0
  BY SlotsAreCoroutines DEF Init, Connecting, At, Orphans, Live
<1>3. Cardinality({}) = 0
  BY FS_EmptySet
<1>4. Counted
  BY <1>2, <1>3 DEF Counted, Init
<1> QED
  BY <1>1, <1>4 DEF IInv, Watched, Cancellable, Init

LEMMA NextInvariant == IInv /\ [Next]_vars => IInv'
<1> SUFFICES ASSUME IInv, [Next]_vars PROVE IInv'
  OBVIOUS
<1>1. CASE UNCHANGED <<co, executing, state, flags, stream>>
  <2>1. Connecting' = Connecting /\ Loops' = Loops
    BY <1>1 DEF Connecting, Loops, At
  <2>2. TypeInv' /\ Watched'
    BY <1>1, <2>1 DEF IInv, TypeInv, Watched, state, flags, stream
  <2> QED
    BY <1>1, <2>1, <2>2, StreamUntouched DEF IInv, flags, stream
<1>2. CASE StopTask
  <2>1. Halt /\ co' = co
    BY <1>2 DEF StopTask
  <2>2. Connecting' = Connecting /\ co' \in [Coroutines -> Coroutine]
    BY <2>1 DEF IInv, TypeInv, Connecting, At
  <2> QED
    BY <2>1, <2>2, HaltKeeps
<1>3. CASE Executes
  <2>1. /\ UNCHANGED <<co, flags, stream>>
        /\ vouched' \/ ~ (running /\ ~ supervising /\ Connecting = {})
    BY <1>3 DEF Executes, IInv, Watched, state
  <2> QED
    BY <2>1, StateChanges
<1>4. CASE ExecutionVerified
  <2>1. executing # "none" /\ executing' = "none" /\ UNCHANGED <<co, flags, stream>>
    BY <1>4 DEF ExecutionVerified
  <2>2. \/ vouched \/ ~ (running /\ ~ supervising /\ Connecting = {})
        \/ status \in {"FROZEN", "BOOTSTRAPPING"} /\ executing = "older"
    BY <2>1 DEF IInv, Watched
  <2>3. CASE status' = "READY" /\ vouched' = (vouched \/ executing = "older")
    <3>1. vouched' \/ ~ (running /\ ~ supervising /\ Connecting = {})
      BY <2>2, <2>3
    <3> QED
      BY <2>1, <3>1, StateChanges
  <2>4. CASE UNCHANGED state
    <3>1. \/ vouched' \/ ~ (running /\ ~ supervising /\ Connecting = {})
          \/ status' \in {"FROZEN", "BOOTSTRAPPING"} /\ executing' \in {"none", "older"}
      BY <2>1, <2>2, <2>4 DEF state
    <3> QED
      BY <2>1, <3>1, StateChanges
  <2> QED
    BY <1>4, <2>3, <2>4 DEF ExecutionVerified
<1>5. CASE Frozen
  <2>1. /\ UNCHANGED <<co, flags, stream>>
        /\ \/ vouched' \/ ~ (running /\ ~ supervising /\ Connecting = {})
           \/ status' \in {"FROZEN", "BOOTSTRAPPING"} /\ executing' \in {"none", "older"}
    BY <1>5 DEF Frozen, IInv, Watched
  <2> QED
    BY <2>1, StateChanges
<1>6. ASSUME NEW c \in Coroutines, Proceed(c)
      PROVE  IInv'
  <2>1. CASE StopLive(c)
    BY <2>1, StopKeeps
  <2>2. CASE StopLiveEnds(c)
    BY <2>2, EndKeeps
  <2>3. CASE StartTask(c)
    <3>1. co[c].at = "nowhere" /\ Start(c, "start") /\ "start" \in Errands
      BY <2>3, SlotsAreCoroutines DEF StartTask, Errands
    <3> QED
      BY <3>1, StartKeeps
  <2>4. CASE Connected(c)
    BY <2>4, ConnectedKeeps
  <2>5. CASE RestartGoesOn(c)
    <3>1. co[c].at = "pausing" /\ Start(c, co[c].does)
      BY <2>5 DEF RestartGoesOn
    <3>2. co[c].does \in Errands
      BY DEF IInv, TypeInv, Coroutine
    <3> QED
      BY <3>1, <3>2, StartKeeps
  <2>6. CASE ExecutionMistrusted(c)
    <3>1. co[c] = Idle /\ RestartBegins(c, "verify") /\ "verify" \in Restarts
      BY <2>6 DEF ExecutionMistrusted, Restarts
    <3> QED
      BY <3>1, RestartKeeps
  <2> QED
    BY <1>6, <2>1, <2>2, <2>3, <2>4, <2>5, <2>6 DEF Proceed
<1>7. ASSUME NEW c \in Coroutines, Tick(c)
      PROVE  IInv'
  <2>1. CASE LoopEnds(c)
    BY <2>1, EndKeeps
  <2>2. CASE TickJudges(c) \/ ReconcileFails(c)
    <3>1. supervising /\ UNCHANGED <<co, flags, stream>>
      BY <2>2 DEF TickJudges, ReconcileFails, Ticks
    <3> QED
      BY <3>1, StateChanges
  <2>3. CASE TickDrifted(c)
    <3>1. co[c] = Loop /\ RestartBegins(c, "drifted") /\ "drifted" \in Restarts
      BY <2>3 DEF TickDrifted, Ticks, Restarts
    <3> QED
      BY <3>1, RestartKeeps
  <2>4. CASE TickCrashes(c)
    <3>1. co[c] = Loop /\ RestartBegins(c, "crashed") /\ "crashed" \in Restarts
      BY <2>4 DEF TickCrashes, Ticks, Restarts
    <3> QED
      BY <3>1, RestartKeeps
  <2> QED
    BY <1>7, <2>1, <2>2, <2>3, <2>4 DEF Tick
<1>8. Requested \/ UNCHANGED vars => UNCHANGED <<co, executing, state, flags, stream>>
  BY DEF Requested, StartSession, StopSession, RestartSession, StartLive, Untouched, vars
<1> QED
  BY <1>1, <1>2, <1>3, <1>4, <1>5, <1>6, <1>7, <1>8, ListenerEndsKeeps DEF Next

(* The supervisor's loop and the stream's listeners keep to the invariant  *)
(* in every behaviour of starts, stops and restarts.                       *)
THEOREM SupervisionInvariant == Spec => []IInv
<1> QED
  BY InitInvariant, NextInvariant, PTL DEF Spec

(* A running system that trades has a live loop of                         *)
(* ReconciliationSupervisor behind it once nothing is under way.           *)
THEOREM AlwaysSupervised == Spec => []SupervisedWhenReady
<1>1. IInv => SupervisedWhenReady
  BY DEF IInv, Watched, Connecting, SupervisedWhenReady, Quiet, At
<1> QED
  BY <1>1, SupervisionInvariant, PTL

(* BinanceUserStream's events are handed on once, and once more for each   *)
(* stop that ran into a connecting start.                                  *)
THEOREM EventsAlwaysArriveOnce == Spec => []EventsArriveOnce
<1>1. IInv => EventsArriveOnce
  <2> SUFFICES ASSUME IInv PROVE EventsArriveOnce
    OBVIOUS
  <2>1. TypeInv /\ Counted
    BY DEF IInv
  <2>2. CASE crossed = MaxCrossed
    <3>1. listeners \subseteq Listeners
      BY <2>1 DEF TypeInv
    <3>2. Cardinality(listeners) <= Cardinality(Listeners) /\ Cardinality(Listeners) \in Nat
      BY <3>1, FiniteAssumption, FS_Subset, FS_CardinalityType
    <3> QED
      BY <2>1, <2>2, <3>2, SizesAreNumbers DEF MaxCrossed, EventsArriveOnce
  <2>3. CASE crossed # MaxCrossed
    <3>1. Cardinality(Orphans) + Cardinality(Connecting) + Live <= crossed + 1
      BY <2>1, <2>3 DEF Counted
    <3> QED
      BY <2>1, <3>1, SizesAreNumbers, ListenersAreCounted DEF EventsArriveOnce
  <2> QED
    BY <2>2, <2>3
<1> QED
  BY <1>1, SupervisionInvariant, PTL

=============================================================================
