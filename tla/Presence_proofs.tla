-------------------------- MODULE Presence_proofs ---------------------------
(***************************************************************************)
(* Proofs about Presence, for any set of connections and of subscriptions,  *)
(* and any number of changes of focus and of faults.                        *)
(***************************************************************************)
EXTENDS Presence, TLAPS

\* A read under way knows the entries as they are.
Truthful(r) ==
    /\ r.pc = "get" => r.among = member
    /\ r.pc = "tell" => r.status = Effective
TruthfulAll == Truthful(watch.read) /\ \A c \in Conn : Truthful(change[c])

\* The last thing the friend will be shown of a subscription.
LastOf(k) == IF notices[k] # <<>> THEN notices[k][Len(notices[k])] ELSE held[k]

\* The last thing the friend will be shown is true.
EndsRight ==
    \/ watch.live /\ \E c \in Conn : ~Resting(c)
    \/ Carries(watch.sub) /\ LastOf(watch.sub) = Effective
    \/ ~Carries(watch.sub) /\ (watch.read # Idle \/ shown = Effective)

\* And nothing of a cancelled subscription comes after the first read.
NoneLeft == watch.read.pc # "range" => ~Leftover

Sound == ~astray => TruthfulAll /\ (watch.sub # NoSub => NoneLeft /\ EndsRight)

\* A read that has not begun knows nothing, and one that is over keeps nothing.
Fresh(r) == (r.pc = "range" => r = Reading) /\ (r.pc = "none" => r = Idle)
FreshAll == Fresh(watch.read) /\ \A c \in Conn : Fresh(change[c])

IInv == TypeOK /\ FreshAll /\ Sound

-----------------------------------------------------------------------------
LEMMA ReadShape ==
    /\ Idle \in Read /\ Reading \in Read /\ Fresh(Idle) /\ Fresh(Reading)
    /\ Idle.pc = "none" /\ Reading.pc = "range" /\ Reading.status = "offline" /\ Reading # Idle
  BY DEF Read, Idle, Reading, Fresh, Status

LEMMA MostType == \A S : Most(S) \in Status
  BY DEF Most, Status

\* One step of a read keeps its shape, and what it then knows is so.
LEMMA StepTrue ==
    ASSUME TypeOK, NEW r \in Read, Fresh(r), r.pc \in {"range", "get"}
    PROVE  /\ Step(r) \in Read /\ Fresh(Step(r)) /\ Step(r) # Idle
           /\ r.pc = "range" \/ Truthful(r) => Truthful(Step(r))
<1>1. CASE r.pc = "range"
  <2>1. r.status = "offline"
    BY <1>1 DEF Fresh, Reading, Idle
  <2>2. CASE member = {}
    <3>1. Step(r) = [r EXCEPT !.pc = "tell"]
      BY <1>1, <2>2 DEF Step, Range
    <3>2. Step(r) \in Read /\ Step(r).pc = "tell" /\ Step(r).status = "offline"
      BY <2>1, <3>1 DEF Read
    <3>3. Effective = "offline"
      BY <2>2 DEF Effective, Most
    <3> QED BY <3>2, <3>3, ReadShape DEF Fresh, Truthful
  <2>3. CASE member # {}
    <3>1. Step(r) = [r EXCEPT !.pc = "get", !.among = member]
      BY <1>1, <2>3 DEF Step, Range
    <3>2. Step(r) \in Read /\ Step(r).pc = "get" /\ Step(r).among = member
      BY <3>1 DEF Read, TypeOK
    <3> QED BY <3>2, ReadShape DEF Fresh, Truthful
  <2> QED BY <2>2, <2>3
<1>2. CASE r.pc = "get"
  <2>1. Step(r) = [pc |-> "tell", among |-> {}, status |-> Most(r.among)]
    BY <1>2 DEF Step, Get
  <2>2. Step(r) \in Read /\ Fresh(Step(r)) /\ Step(r) # Idle
    BY <2>1, MostType DEF Read, Fresh, Idle
  <2>3. Truthful(r) => Truthful(Step(r))
    BY <1>2, <2>1 DEF Truthful, Effective
  <2> QED BY <1>2, <2>2, <2>3
<1> QED BY <1>1, <1>2

LEMMA InitIInv == Init => IInv
<1> SUFFICES ASSUME Init PROVE IInv
  OBVIOUS
<1> USE ReadShape
<1>1. TypeOK
  <2>1. /\ watch \in [sub : Sub \cup {NoSub}, live : BOOLEAN, read : Read]
        /\ watch.sub = NoSub /\ ~watch.live /\ watch.read = Idle
    BY DEF Init
  <2>2. /\ notices \in [Sub -> Seq(Status)] /\ held \in [Sub -> Status \cup {Nothing}]
        /\ shown \in Status
    BY DEF Init, Status
  <2>3. change \in [Conn -> Read]
    BY DEF Init
  <2>4. /\ member \subseteq Conn /\ key \in [Conn -> {"none", "idle", "online"}]
        /\ phase \in [Conn -> {"new", "open", "gone", "crashed"}]
        /\ \A c \in Conn : c \notin member /\ key[c] = "none"
    BY DEF Init
  <2>5. moves \in 0..MaxFocus /\ faults \in 0..MaxFaults
    BY PresenceBounds DEF Init
  <2>6. astray \in BOOLEAN
    BY DEF Init
  <2> QED BY <2>1, <2>2, <2>3, <2>4, <2>5, <2>6 DEF TypeOK
<1>2. FreshAll
  BY DEF Init, FreshAll
<1>3. TruthfulAll
  BY DEF Init, TruthfulAll, Truthful
<1>4. watch.sub = NoSub
  BY DEF Init
<1> QED BY <1>1, <1>2, <1>3, <1>4 DEF IInv, Sound

\* While the entries stay, so does what is true of them.
LEMMA SameTruth ==
    ASSUME UNCHANGED redis
    PROVE  Effective' = Effective /\ \A r : Truthful(r)' <=> Truthful(r)
  BY DEF redis, Effective, Most, Truthful

-----------------------------------------------------------------------------
\* A write that is announced: nothing older is under way, or the run is astray.
LEMMA WriteIInv ==
    ASSUME IInv, NEW c \in Conn, Announce(c), UNCHANGED friend, UNCHANGED faults,
           phase' \in [Conn -> {"new", "open", "gone", "crashed"}],
           member' \subseteq Conn, key' \in [Conn -> {"none", "idle", "online"}],
           \A d \in Conn : phase'[d] \in {"new", "gone"} => d \notin member' /\ key'[d] = "none",
           moves' \in 0..MaxFocus
    PROVE  IInv'
<1>1. TypeOK'
  BY ReadShape DEF IInv, TypeOK, Announce, friend, Carries
<1>2. FreshAll'
  BY ReadShape DEF IInv, TypeOK, FreshAll, Announce, friend, Fresh
<1>3. ASSUME ~astray' PROVE TruthfulAll' /\ (watch'.sub # NoSub => NoneLeft' /\ EndsRight')
  <2>1. Heard(c)
    BY <1>3 DEF Announce
  <2>2. ~Stale(watch.read) /\ \A d \in Conn : ~Stale(change'[d])
    BY <2>1, ReadShape DEF Heard, Overlapped, Stale, Announce, IInv, TypeOK
  <2>3. TruthfulAll'
    BY <2>2 DEF TruthfulAll, Truthful, Stale, friend
  <2>4. change'[c] # Idle
    BY ReadShape DEF Announce, IInv, TypeOK
  <2>5. NoneLeft'
    BY <2>1 DEF Heard, NoneLeft, Leftover, Carries, friend
  <2>6. CASE watch.live
    BY <2>3, <2>4, <2>5, <2>6 DEF EndsRight, Resting, friend
  <2>7. CASE watch.sub # NoSub /\ ~watch.live
    <3>1. watch.read # Idle /\ ~Carries(watch.sub)
      BY <2>1, <2>7, ReadShape DEF Heard, IInv, TypeOK
    <3> QED BY <2>3, <2>5, <3>1 DEF EndsRight, friend, Carries
  <2> QED BY <2>3, <2>5, <2>6, <2>7 DEF friend
<1> QED BY <1>1, <1>2, <1>3 DEF IInv, Sound

LEMMA RegisterIInv == ASSUME IInv, NEW c \in Conn, Register(c) PROVE IInv'
<1>1. /\ phase' \in [Conn -> {"new", "open", "gone", "crashed"}]
      /\ member' \subseteq Conn /\ key' \in [Conn -> {"none", "idle", "online"}]
      /\ \A d \in Conn : phase'[d] \in {"new", "gone"} => d \notin member' /\ key'[d] = "none"
      /\ moves' \in 0..MaxFocus
  BY DEF Register, Put, IInv, TypeOK
<1> QED BY <1>1, WriteIInv DEF Register, Put

LEMMA SetStateIInv ==
    ASSUME IInv, NEW c \in Conn, NEW st \in {"idle", "online"}, SetState(c, st) PROVE IInv'
<1>1. /\ phase' \in [Conn -> {"new", "open", "gone", "crashed"}]
      /\ member' \subseteq Conn /\ key' \in [Conn -> {"none", "idle", "online"}]
      /\ \A d \in Conn : phase'[d] \in {"new", "gone"} => d \notin member' /\ key'[d] = "none"
  BY DEF SetState, Put, IInv, TypeOK
<1>2. moves' \in 0..MaxFocus
  BY PresenceBounds DEF SetState, IInv, TypeOK
<1> QED BY <1>1, <1>2, WriteIInv DEF SetState, Put

LEMMA RemoveIInv == ASSUME IInv, NEW c \in Conn, Remove(c) PROVE IInv'
<1>1. /\ phase' \in [Conn -> {"new", "open", "gone", "crashed"}]
      /\ member' \subseteq Conn /\ key' \in [Conn -> {"none", "idle", "online"}]
      /\ \A d \in Conn : phase'[d] \in {"new", "gone"} => d \notin member' /\ key'[d] = "none"
      /\ moves' \in 0..MaxFocus
  BY DEF Remove, Erase, IInv, TypeOK
<1> QED BY <1>1, WriteIInv DEF Remove

-----------------------------------------------------------------------------
LEMMA LookIInv == ASSUME IInv, NEW c \in Conn, Look(c) PROVE IInv'
<1> DEFINE r == change[c]
<1>0. r \in Read /\ Fresh(r) /\ r.pc \in {"range", "get"}
  BY DEF Look, IInv, TypeOK, FreshAll
<1>1. /\ Step(r) \in Read /\ Fresh(Step(r)) /\ Step(r) # Idle
      /\ r.pc = "range" \/ Truthful(r) => Truthful(Step(r))
  BY <1>0, StepTrue DEF IInv
<1>2. change' \in [Conn -> Read] /\ change'[c] = Step(r)
      /\ \A d \in Conn : d # c => change'[d] = change[d]
  BY <1>1 DEF Look, IInv, TypeOK
<1>3. TypeOK'
  BY <1>2 DEF Look, IInv, TypeOK, redis, friend, Carries
<1>4. FreshAll'
  BY <1>1, <1>2 DEF Look, IInv, FreshAll, friend, Fresh
<1>5. Effective' = Effective /\ \A s : Truthful(s)' <=> Truthful(s)
  BY SameTruth DEF Look
<1>6. ASSUME ~astray PROVE TruthfulAll' /\ (watch'.sub # NoSub => NoneLeft' /\ EndsRight')
  <2>1. Truthful(watch.read) /\ \A d \in Conn : Truthful(change[d])
    BY <1>6 DEF IInv, Sound, TruthfulAll
  <2>2. \A d \in Conn : Truthful(change'[d])
    BY <1>1, <1>2, <2>1
  <2>3. TruthfulAll'
    BY <1>5, <2>1, <2>2 DEF TruthfulAll, Look, friend
  <2>4. watch'.sub # NoSub => EndsRight'
    BY <1>1, <1>2, <1>5, <1>6 DEF IInv, Sound, EndsRight, Resting, LastOf, Carries, Look, friend
  <2>5. watch'.sub # NoSub => NoneLeft'
    BY <1>6 DEF IInv, Sound, NoneLeft, Leftover, Carries, Look, friend
  <2> QED BY <2>3, <2>4, <2>5
<1> QED BY <1>3, <1>4, <1>6 DEF IInv, Sound, Look

LEMMA PublishIInv == ASSUME IInv, NEW c \in Conn, Publish(c) PROVE IInv'
<1>1. change' \in [Conn -> Read] /\ change'[c] = Idle
      /\ \A d \in Conn : d # c => change'[d] = change[d]
  BY ReadShape DEF Publish, IInv, TypeOK
<1>2. change[c].status \in Status /\ change[c].pc = "tell"
  BY DEF Publish, IInv, TypeOK, Read
<1>3. watch.live => watch.sub \in Sub
  BY DEF IInv, TypeOK
<1>4. /\ notices' \in [Sub -> Seq(Status)]
      /\ \A k \in Sub : notices'[k] =
            IF watch.live /\ k = watch.sub THEN Append(notices[k], change[c].status) ELSE notices[k]
  BY <1>2, <1>3 DEF Publish, News, IInv, TypeOK
<1>5. TypeOK'
  BY <1>1, <1>4 DEF Publish, IInv, TypeOK, redis, Carries
<1>6. FreshAll'
  BY <1>1, ReadShape DEF Publish, IInv, FreshAll, Fresh
<1>7. Effective' = Effective /\ \A s : Truthful(s)' <=> Truthful(s)
  BY SameTruth DEF Publish
<1>8. ASSUME ~astray PROVE TruthfulAll' /\ (watch'.sub # NoSub => NoneLeft' /\ EndsRight')
  <2>1. Truthful(watch.read) /\ \A d \in Conn : Truthful(change[d])
    BY <1>8 DEF IInv, Sound, TruthfulAll
  <2>2. \A d \in Conn : Truthful(change'[d])
    BY <1>1, <2>1, ReadShape DEF Truthful
  <2>3. TruthfulAll'
    BY <1>7, <2>1, <2>2 DEF TruthfulAll, Publish
  <2>4. watch'.sub # NoSub => NoneLeft'
    BY <1>4, <1>8 DEF IInv, Sound, NoneLeft, Leftover, Carries, Publish
  <2>5. CASE watch.live
    <3> DEFINE k == watch.sub
    <3>1. change[c].status = Effective
      BY <1>2, <2>1 DEF Truthful
    <3>2. k \in Sub /\ notices[k] \in Seq(Status) /\ notices'[k] = Append(notices[k], change[c].status)
      BY <1>3, <1>4, <2>5 DEF IInv, TypeOK
    <3>3. notices'[k] # <<>> /\ notices'[k][Len(notices'[k])] = Effective
      BY <1>2, <3>1, <3>2
    <3>4. watch' = watch
      BY DEF Publish
    <3> QED BY <2>3, <2>4, <3>3, <3>4, <1>7 DEF EndsRight, LastOf, Carries
  <2>6. CASE ~watch.live
    <3>1. UNCHANGED <<notices, watch, shown, held>>
      BY <2>6 DEF Publish
    <3> QED BY <2>3, <2>4, <2>6, <3>1, <1>7, <1>8 DEF EndsRight, IInv, Sound, LastOf, Carries
  <2> QED BY <2>5, <2>6
<1> QED BY <1>5, <1>6, <1>8 DEF IInv, Sound, Publish

-----------------------------------------------------------------------------
LEMMA WatchIInv == ASSUME IInv, Watch PROVE IInv'
<1>1. PICK k \in Sub : ~Carries(k) /\ watch' = [sub |-> k, live |-> FALSE, read |-> Reading]
  BY DEF Watch
<1>2. TypeOK'
  BY <1>1, ReadShape, NoSubAssumption DEF Watch, IInv, TypeOK, redis, Carries
<1>3. FreshAll'
  BY <1>1, ReadShape DEF Watch, IInv, FreshAll, Fresh
<1>4. Effective' = Effective /\ \A s : Truthful(s)' <=> Truthful(s)
  BY SameTruth DEF Watch
<1>5. ~astray => TruthfulAll'
  BY <1>1, <1>4, ReadShape DEF Watch, IInv, Sound, TruthfulAll, Truthful
<1>6. EndsRight' /\ NoneLeft'
  BY <1>1, ReadShape DEF EndsRight, NoneLeft, Carries, Watch
<1> QED BY <1>2, <1>3, <1>5, <1>6 DEF IInv, Sound, Watch

LEMMA SubscribedIInv == ASSUME IInv, Subscribed PROVE IInv'
<1>1. /\ watch'.sub = watch.sub /\ watch'.live /\ watch'.read = watch.read
      /\ watch.sub # NoSub /\ ~watch.live /\ ~Carries(watch.sub)
      /\ watch' \in [sub : Sub \cup {NoSub}, live : BOOLEAN, read : Read]
  BY DEF Subscribed, IInv, TypeOK
<1>2. TypeOK'
  BY <1>1 DEF Subscribed, IInv, TypeOK, redis
<1>3. FreshAll'
  BY <1>1 DEF Subscribed, IInv, FreshAll, Fresh
<1>4. Effective' = Effective /\ \A s : Truthful(s)' <=> Truthful(s)
  BY SameTruth DEF Subscribed
<1>5. ~astray => TruthfulAll'
  BY <1>1, <1>4 DEF Subscribed, IInv, Sound, TruthfulAll
<1>6. ~astray => EndsRight' /\ NoneLeft'
  BY <1>1, <1>4 DEF Subscribed, IInv, Sound, EndsRight, NoneLeft, Leftover, Carries, LastOf
<1> QED BY <1>2, <1>3, <1>5, <1>6 DEF IInv, Sound, Subscribed

LEMMA LookFirstIInv == ASSUME IInv, LookFirst PROVE IInv'
<1> DEFINE r == watch.read
<1>0. r \in Read /\ Fresh(r) /\ r.pc \in {"range", "get"} /\ watch.sub \in Sub
  BY ReadShape DEF LookFirst, IInv, TypeOK, FreshAll
<1>1. /\ Step(r) \in Read /\ Fresh(Step(r)) /\ Step(r) # Idle
      /\ r.pc = "range" \/ Truthful(r) => Truthful(Step(r))
  BY <1>0, StepTrue DEF IInv
<1>2. watch'.sub = watch.sub /\ watch'.live = watch.live /\ watch'.read = Step(r)
      /\ watch' \in [sub : Sub \cup {NoSub}, live : BOOLEAN, read : Read]
  BY <1>1 DEF LookFirst, IInv, TypeOK
<1>3. astray' \in BOOLEAN
  BY DEF LookFirst, Older, IInv, TypeOK
<1>4. TypeOK'
  BY <1>0, <1>2, <1>3, NoSubAssumption DEF LookFirst, IInv, TypeOK, redis, Carries
<1>5. FreshAll'
  BY <1>1, <1>2 DEF LookFirst, IInv, FreshAll, Fresh
<1>6. Effective' = Effective /\ \A s : Truthful(s)' <=> Truthful(s)
  BY SameTruth DEF LookFirst
<1>7. ASSUME ~astray' PROVE TruthfulAll' /\ NoneLeft' /\ EndsRight'
  <2>1. CASE r.pc = "range"
    <3>1. (\A k \in Sub : ~Carries(k)) /\ \A c \in Conn : ~Stale(change[c])
      BY <1>7, <2>1 DEF LookFirst, Older
    <3>2. \A c \in Conn : Truthful(change[c])
      BY <3>1 DEF Stale, Truthful
    <3>3. TruthfulAll'
      BY <1>1, <1>2, <1>6, <2>1, <3>2 DEF TruthfulAll, LookFirst
    <3>4. EndsRight' /\ NoneLeft'
      BY <1>0, <1>1, <1>2, <3>1 DEF EndsRight, NoneLeft, Leftover, Carries, LookFirst
    <3> QED BY <3>3, <3>4
  <2>2. CASE r.pc = "get"
    <3>0. watch.sub # NoSub
      BY <1>0, NoSubAssumption
    <3>1. ~astray
      BY <1>7, <2>2 DEF LookFirst
    <3>2. TruthfulAll'
      BY <1>1, <1>2, <1>6, <3>1 DEF IInv, Sound, TruthfulAll, LookFirst
    <3>3. NoneLeft'
      BY <1>2, <2>2, <3>0, <3>1 DEF IInv, Sound, NoneLeft, Leftover, Carries, LookFirst
    <3>4. EndsRight'
      BY <1>1, <1>2, <1>6, <3>0, <3>1 DEF IInv, Sound, EndsRight, Resting, LastOf, Carries, LookFirst
    <3> QED BY <3>2, <3>3, <3>4
  <2> QED BY <1>0, <2>1, <2>2
<1> QED BY <1>4, <1>5, <1>7 DEF IInv, Sound

LEMMA SendCurrentIInv == ASSUME IInv, SendCurrent PROVE IInv'
<1>1. /\ watch'.sub = watch.sub /\ watch'.live = watch.live /\ watch'.read = Idle
      /\ shown' = watch.read.status /\ watch.read.pc = "tell"
      /\ watch' \in [sub : Sub \cup {NoSub}, live : BOOLEAN, read : Read]
  BY ReadShape DEF SendCurrent, Shows, IInv, TypeOK
<1>2. shown' \in Status
  BY <1>1 DEF IInv, TypeOK, Read
<1>3. TypeOK'
  BY <1>1, <1>2 DEF SendCurrent, IInv, TypeOK, redis, Carries
<1>4. FreshAll'
  BY <1>1, ReadShape DEF SendCurrent, IInv, FreshAll, Fresh
<1>5. Effective' = Effective /\ \A s : Truthful(s)' <=> Truthful(s)
  BY SameTruth DEF SendCurrent
<1>6. ~astray => TruthfulAll'
  BY <1>1, <1>5, ReadShape DEF SendCurrent, IInv, Sound, TruthfulAll, Truthful
<1>7. ~astray => shown' = Effective
  BY <1>1 DEF IInv, Sound, TruthfulAll, Truthful
<1>8. ~astray /\ watch.sub # NoSub => EndsRight'
  BY <1>1, <1>5, <1>7 DEF IInv, Sound, EndsRight, Resting, LastOf, Carries, SendCurrent
<1>9. ~astray /\ watch.sub # NoSub => NoneLeft'
  BY <1>1 DEF IInv, Sound, NoneLeft, Leftover, Carries, SendCurrent
<1> QED BY <1>1, <1>3, <1>4, <1>6, <1>8, <1>9 DEF IInv, Sound, SendCurrent

-----------------------------------------------------------------------------
(* The pumps. A cancelled one has nothing left once the first read is done. *)

\* What is under way of a cancelled subscription leaves the other one as it is.
LEMMA OtherPump ==
    ASSUME IInv, NEW k \in Sub, k # watch.sub, Carries(k), UNCHANGED <<redis, change, watch>>,
           \A j \in Sub \ {k} : notices'[j] = notices[j] /\ held'[j] = held[j],
           ~astray, watch.sub # NoSub
    PROVE  NoneLeft' /\ EndsRight'
<1>1. watch.read.pc = "range"
  BY DEF IInv, Sound, NoneLeft, Leftover
<1>2. watch.read # Idle /\ watch.sub \in Sub \ {k}
  BY <1>1, ReadShape DEF IInv, TypeOK
<1>3. Effective' = Effective
  BY SameTruth DEF redis
<1>4. EndsRight
  BY DEF IInv, Sound
<1>5. EndsRight'
  BY <1>2, <1>3, <1>4 DEF EndsRight, Carries, LastOf, Resting
<1> QED BY <1>1, <1>5 DEF NoneLeft

\* Nor does a subscription that is not cancelled add to what is left of others.
LEMMA OwnPump ==
    ASSUME IInv, UNCHANGED watch,
           \A j \in Sub \ {watch.sub} : notices'[j] = notices[j] /\ held'[j] = held[j],
           ~astray, watch.sub # NoSub
    PROVE  NoneLeft'
  BY DEF IInv, Sound, NoneLeft, Leftover, Carries

LEMMA TakeIInv == ASSUME IInv, NEW k \in Sub, Take(k) PROVE IInv'
<1>1. notices[k] \in Seq(Status) /\ notices[k] # <<>> /\ held[k] = Nothing /\ Carries(k)
  BY DEF Take, Carries, IInv, TypeOK
<1>2. Head(notices[k]) \in Status /\ Tail(notices[k]) \in Seq(Status)
  BY <1>1
<1>3. /\ notices' \in [Sub -> Seq(Status)] /\ notices'[k] = Tail(notices[k])
      /\ held' \in [Sub -> Status \cup {Nothing}] /\ held'[k] = Sinks(Head(notices[k]))
      /\ \A j \in Sub \ {k} : notices'[j] = notices[j] /\ held'[j] = held[j]
  BY <1>2 DEF Take, Sinks, IInv, TypeOK
<1>4. watch.sub # NoSub /\ ~watch.live => k # watch.sub
  BY <1>1 DEF IInv, TypeOK
<1>5. TypeOK'
  BY <1>3, <1>4 DEF Take, IInv, TypeOK, redis, Carries
<1>6. FreshAll'
  BY DEF Take, IInv, FreshAll, Fresh
<1>7. Effective' = Effective /\ \A s : Truthful(s)' <=> Truthful(s)
  BY SameTruth DEF Take
<1>8. ~astray => TruthfulAll'
  BY <1>7 DEF Take, IInv, Sound, TruthfulAll
<1>9. ASSUME ~astray, watch.sub # NoSub PROVE NoneLeft' /\ EndsRight'
  <2>1. CASE k # watch.sub
    BY <1>1, <1>3, <1>9, <2>1, OtherPump DEF Take, redis
  <2>2. CASE k = watch.sub
    <3>1. held'[k] = Head(notices[k]) /\ held'[k] # Nothing
      BY <1>2, <1>3, <1>9 DEF Sinks, Status, Nothing
    <3>2. /\ notices'[k] = <<>> => held'[k] = notices[k][Len(notices[k])]
          /\ notices'[k] # <<>> => notices'[k][Len(notices'[k])] = notices[k][Len(notices[k])]
      BY <1>1, <1>3, <3>1
    <3>3. watch' = watch /\ change' = change
      BY DEF Take
    <3>4. EndsRight
      BY <1>9 DEF IInv, Sound
    <3>5. EndsRight'
      BY <1>1, <1>7, <2>2, <3>1, <3>2, <3>3, <3>4 DEF EndsRight, Carries, LastOf, Resting
    <3>6. NoneLeft'
      BY <1>3, <1>9, <2>2, <3>3, OwnPump
    <3> QED BY <3>5, <3>6
  <2> QED BY <2>1, <2>2
<1> QED BY <1>5, <1>6, <1>8, <1>9 DEF IInv, Sound, Take

LEMMA FanoutIInv == ASSUME IInv, NEW k \in Sub, Fanout(k) PROVE IInv'
<1>1. held[k] \in Status /\ Carries(k)
  BY DEF Fanout, Carries, IInv, TypeOK
<1>2. /\ shown' = held[k] /\ notices' = notices
      /\ held' \in [Sub -> Status \cup {Nothing}] /\ held'[k] = Nothing
      /\ \A j \in Sub \ {k} : held'[j] = held[j]
  BY DEF Fanout, Shows, IInv, TypeOK
<1>3. watch.sub # NoSub /\ ~watch.live => k # watch.sub
  BY <1>1 DEF IInv, TypeOK
<1>4. TypeOK'
  BY <1>1, <1>2, <1>3 DEF Fanout, IInv, TypeOK, redis, Carries
<1>5. FreshAll'
  BY DEF Fanout, IInv, FreshAll, Fresh
<1>6. Effective' = Effective /\ \A s : Truthful(s)' <=> Truthful(s)
  BY SameTruth DEF Fanout
<1>7. ~astray => TruthfulAll'
  BY <1>6 DEF Fanout, IInv, Sound, TruthfulAll
<1>8. ASSUME ~astray, watch.sub # NoSub PROVE NoneLeft' /\ EndsRight'
  <2>1. CASE k # watch.sub
    BY <1>1, <1>2, <1>8, <2>1, OtherPump DEF Fanout, redis
  <2>2. CASE k = watch.sub
    <3>1. watch' = watch /\ change' = change
      BY DEF Fanout
    <3>2. EndsRight
      BY <1>8 DEF IInv, Sound
    <3>3. EndsRight'
      BY <1>1, <1>2, <1>6, <2>2, <3>1, <3>2 DEF EndsRight, Carries, LastOf, Resting
    <3>4. NoneLeft'
      BY <1>2, <1>8, <2>2, <3>1, OwnPump
    <3> QED BY <3>3, <3>4
  <2> QED BY <2>1, <2>2
<1> QED BY <1>4, <1>5, <1>7, <1>8 DEF IInv, Sound, Fanout

LEMMA EndIInv == ASSUME IInv, NEW k \in Sub, End(k) PROVE IInv'
<1>1. /\ notices' \in [Sub -> Seq(Status)] /\ notices'[k] = <<>> /\ k # watch.sub /\ Carries(k)
      /\ \A j \in Sub \ {k} : notices'[j] = notices[j]
  BY DEF End, Carries, IInv, TypeOK
<1>2. TypeOK'
  BY <1>1 DEF End, IInv, TypeOK, redis, Carries
<1>3. FreshAll'
  BY DEF End, IInv, FreshAll, Fresh
<1>4. Effective' = Effective /\ \A s : Truthful(s)' <=> Truthful(s)
  BY SameTruth DEF End
<1>5. ~astray => TruthfulAll'
  BY <1>4 DEF End, IInv, Sound, TruthfulAll
<1>6. ~astray /\ watch.sub # NoSub => NoneLeft' /\ EndsRight'
  BY <1>1, OtherPump DEF End, redis
<1> QED BY <1>2, <1>3, <1>5, <1>6 DEF IInv, Sound, End

LEMMA UnwatchIInv == ASSUME IInv, Unwatch PROVE IInv'
<1>1. /\ watch'.sub = NoSub /\ ~watch'.live /\ watch'.read = Idle /\ watch.read = Idle
      /\ watch' \in [sub : Sub \cup {NoSub}, live : BOOLEAN, read : Read]
      /\ held' \in [Sub -> Status \cup {Nothing}]
  BY DEF Unwatch, Cancelled, IInv, TypeOK
<1>2. TypeOK'
  BY <1>1 DEF Unwatch, IInv, TypeOK, redis
<1>3. FreshAll'
  BY <1>1 DEF Unwatch, IInv, FreshAll, Fresh
<1>4. ~astray => TruthfulAll'
  BY <1>1, SameTruth DEF Unwatch, IInv, Sound, TruthfulAll
<1> QED BY <1>1, <1>2, <1>3, <1>4 DEF IInv, Sound, Unwatch

-----------------------------------------------------------------------------
\* A step after which nothing is promised.
LEMMA AstrayIInv ==
    ASSUME TypeOK', FreshAll', astray'
    PROVE  IInv'
  BY DEF IInv, Sound

LEMMA HeartbeatIInv == ASSUME IInv, NEW c \in Conn, Heartbeat(c) PROVE IInv'
<1>1. TypeOK'
  BY DEF Heartbeat, IInv, TypeOK, friend, Carries
<1>2. FreshAll'
  BY DEF Heartbeat, IInv, FreshAll, friend, Fresh
<1> QED BY <1>1, <1>2, AstrayIInv DEF Heartbeat

LEMMA LapseIInv == ASSUME IInv, NEW c \in Conn, Lapse(c) PROVE IInv'
<1>1. faults' \in 0..MaxFaults
  BY PresenceBounds DEF Lapse, Fault, IInv, TypeOK
<1>2. member' \subseteq Conn /\ key' \in [Conn -> {"none", "idle", "online"}]
      /\ \A d \in Conn : phase[d] \in {"new", "gone"} => d \notin member' /\ key'[d] = "none"
  BY DEF Lapse, IInv, TypeOK
<1>3. TypeOK'
  BY <1>1, <1>2 DEF Lapse, IInv, TypeOK, friend, Carries
<1>4. FreshAll'
  BY DEF Lapse, IInv, FreshAll, friend, Fresh
<1> QED BY <1>3, <1>4, AstrayIInv DEF Lapse

LEMMA CrashIInv == ASSUME IInv, NEW c \in Conn, Crash(c) PROVE IInv'
<1>1. faults' \in 0..MaxFaults
  BY PresenceBounds DEF Crash, Fault, IInv, TypeOK
<1>2. change' \in [Conn -> Read] /\ change'[c] = Idle
      /\ \A d \in Conn : d # c => change'[d] = change[d]
  BY ReadShape DEF Crash, IInv, TypeOK
<1>3. TypeOK'
  BY <1>1, <1>2 DEF Crash, IInv, TypeOK, redis, friend, Resting, Carries
<1>4. FreshAll'
  BY <1>2, ReadShape DEF Crash, IInv, FreshAll, friend, Fresh
<1>5. CASE Resting(c)
  <2>1. change' = change
    BY <1>2, <1>5 DEF Resting, IInv, TypeOK
  <2>2. astray' = astray
    BY <1>5 DEF Crash, IInv, TypeOK
  <2>3. Effective' = Effective /\ \A s : Truthful(s)' <=> Truthful(s)
    BY SameTruth DEF Crash
  <2>4. Sound'
    BY <2>1, <2>2, <2>3 DEF Crash, friend, IInv, Sound, TruthfulAll, EndsRight, NoneLeft,
       Leftover, Carries, LastOf, Resting
  <2> QED BY <1>3, <1>4, <2>4 DEF IInv
<1>6. CASE ~Resting(c)
  BY <1>3, <1>4, <1>6, AstrayIInv DEF Crash
<1> QED BY <1>5, <1>6

LEMMA LoseChangeIInv == ASSUME IInv, NEW c \in Conn, LoseChange(c) PROVE IInv'
<1>1. faults' \in 0..MaxFaults
  BY PresenceBounds DEF LoseChange, Fault, IInv, TypeOK
<1>2. TypeOK'
  BY <1>1, ReadShape DEF LoseChange, IInv, TypeOK, redis, friend, Carries
<1>3. FreshAll'
  BY ReadShape DEF LoseChange, IInv, TypeOK, FreshAll, friend, Fresh
<1> QED BY <1>2, <1>3, AstrayIInv DEF LoseChange

LEMMA LoseFirstIInv == ASSUME IInv, LoseFirst PROVE IInv'
<1>1. faults' \in 0..MaxFaults
  BY PresenceBounds DEF LoseFirst, Fault, IInv, TypeOK
<1>2. watch'.sub = watch.sub /\ watch'.live = watch.live /\ watch'.read = Idle
      /\ watch' \in [sub : Sub \cup {NoSub}, live : BOOLEAN, read : Read]
  BY ReadShape DEF LoseFirst, IInv, TypeOK
<1>3. TypeOK'
  BY <1>1, <1>2 DEF LoseFirst, IInv, TypeOK, redis, Carries
<1>4. FreshAll'
  BY <1>2, ReadShape DEF LoseFirst, IInv, FreshAll, Fresh
<1> QED BY <1>3, <1>4, AstrayIInv DEF LoseFirst

LEMMA StutterIInv == ASSUME IInv, UNCHANGED vars PROVE IInv'
<1>1. TypeOK'
  BY DEF vars, redis, friend, IInv, TypeOK, Carries
<1>2. FreshAll'
  BY DEF vars, friend, IInv, FreshAll, Fresh
<1>3. Effective' = Effective /\ \A s : Truthful(s)' <=> Truthful(s)
  BY SameTruth DEF vars
<1>4. Sound'
  BY <1>3 DEF vars, friend, IInv, Sound, TruthfulAll, EndsRight, NoneLeft, Leftover, Carries,
     LastOf, Resting
<1> QED BY <1>1, <1>2, <1>4 DEF IInv

-----------------------------------------------------------------------------
\* The invariant holds of every behaviour, one step at a time.
THEOREM Invariant == Spec => []IInv
<1>1. Init => IInv BY InitIInv
<1>2. IInv /\ [Next]_vars => IInv'
  <2> SUFFICES ASSUME IInv, [Next]_vars PROVE IInv'
    OBVIOUS
  <2>1. ASSUME NEW c \in Conn, Register(c) \/ Remove(c) \/ \E st \in {"idle", "online"} : SetState(c, st)
        PROVE  IInv'
    BY <2>1, RegisterIInv, RemoveIInv, SetStateIInv
  <2>2. ASSUME NEW c \in Conn, Heartbeat(c) \/ Look(c) \/ Publish(c)
        PROVE  IInv'
    BY <2>2, HeartbeatIInv, LookIInv, PublishIInv
  <2>3. ASSUME NEW c \in Conn, Lapse(c) \/ Crash(c) \/ LoseChange(c)
        PROVE  IInv'
    BY <2>3, LapseIInv, CrashIInv, LoseChangeIInv
  <2>4. CASE Watch \/ Subscribed \/ LookFirst \/ SendCurrent \/ Unwatch \/ LoseFirst
    BY <2>4, WatchIInv, SubscribedIInv, LookFirstIInv, SendCurrentIInv, UnwatchIInv, LoseFirstIInv
  <2>5. ASSUME NEW k \in Sub, Take(k) \/ Fanout(k) \/ End(k)
        PROVE  IInv'
    BY <2>5, TakeIInv, FanoutIInv, EndIInv
  <2>6. CASE UNCHANGED vars
    BY <2>6, StutterIInv
  <2> QED BY <2>1, <2>2, <2>3, <2>4, <2>5, <2>6 DEF Next
<1> QED BY <1>1, <1>2, PTL DEF Spec

\* Every variable keeps its type, and a connection that is new or gone has no entry
\* (Register, Remove).
THEOREM TypeCorrect == Spec => []TypeOK
<1>1. IInv => TypeOK BY DEF IInv
<1> QED BY <1>1, Invariant, PTL

\* Whatever the interleaving of changes, reads, notices and watches, a friend is
\* left with the effective status unless the run went astray (publishChange, Watch).
THEOREM WatcherConvergesHolds == Spec => []WatcherConverges
<1>1. IInv => WatcherConverges
  <2> SUFFICES ASSUME IInv, Quiet, ~astray PROVE shown = Effective
    BY DEF WatcherConverges
  <2>1. watch.sub \in Sub /\ watch.sub # NoSub
    BY NoSubAssumption DEF IInv, TypeOK, Quiet
  <2>2. EndsRight
    BY <2>1 DEF IInv, Sound
  <2> QED BY <2>1, <2>2 DEF EndsRight, Quiet, Resting
<1> QED BY <1>1, Invariant, PTL
=============================================================================
