-------------------------- MODULE EdgeLocationProofs --------------------------
(***************************************************************************)
(* What EdgeLocation keeps for every set of zones, every verification time   *)
(* and every choice of the intervals.                                       *)
(***************************************************************************)
EXTENDS EdgeLocation, TLAPS

-----------------------------------------------------------------------------
(* Types.                                                                  *)

LEMMA VerifBounds ==
    ASSUME GeofenceTypeOK, NEW z \in Zones
    PROVE  MaxVerif \in Nat /\ verif[z] \in Nat /\ verif[z] <= MaxVerif
BY GeofenceAssumption DEF GeofenceTypeOK

LEMMA AgedType == \A a \in 0 .. MaxVerif : Aged(a) \in 0 .. MaxVerif
BY GeofenceAssumption DEF Aged

LEMMA GeofenceTypeInit == GeofenceInit => GeofenceTypeOK
BY GeofenceAssumption DEF GeofenceInit, GeofenceTypeOK, Sides

LEMMA GeofenceLoopType == GeofenceTypeOK /\ GeofenceLoop => GeofenceTypeOK'
<1> SUFFICES ASSUME GeofenceTypeOK, GeofenceLoop PROVE GeofenceTypeOK'
  OBVIOUS
<1> USE GeofenceAssumption DEF GeofenceTypeOK
<1>1. side' \in [Zones -> Sides] /\ enable' \in [Zones -> BOOLEAN]
      /\ verif' \in [Zones -> Verifs]
  BY DEF GeofenceLoop
<1>2. pending' \in [Zones -> Sides \cup {"UNKNOWN"}]
  BY DEF GeofenceLoop
<1>3. elapsed' \in [Zones -> 0 .. MaxVerif]
  BY DEF GeofenceLoop
<1>4. stale' \in [Zones -> BOOLEAN]
  <2>1. \A S : [z \in Zones |-> stale[z] /\ z \notin S] \in [Zones -> BOOLEAN]
    OBVIOUS
  <2> QED BY <2>1 DEF GeofenceLoop
<1>5. prev' \in [Zones -> Sides \cup {"UNKNOWN"}]
  BY DEF GeofenceLoop
<1>6. seen' \in [Zones -> [Sides -> 0 .. MaxVerif]]
  <2>1. \A z \in Zones : [seen[z] EXCEPT ![side[z]] = 0] \in [Sides -> 0 .. MaxVerif]
    OBVIOUS
  <2> QED BY <2>1 DEF GeofenceLoop
<1> QED BY <1>1, <1>2, <1>3, <1>4, <1>5, <1>6

LEMMA GeofenceSecondType == GeofenceTypeOK /\ GeofenceSecond => GeofenceTypeOK'
<1> SUFFICES ASSUME GeofenceTypeOK, GeofenceSecond PROVE GeofenceTypeOK'
  OBVIOUS
<1>1. elapsed' \in [Zones -> 0 .. MaxVerif]
  BY AgedType DEF GeofenceTypeOK, GeofenceSecond
<1>2. seen' \in [Zones -> [Sides -> 0 .. MaxVerif]]
  BY AgedType DEF GeofenceTypeOK, GeofenceSecond
<1> QED BY <1>1, <1>2 DEF GeofenceTypeOK, GeofenceSecond

LEMMA GeofenceTypeSteps ==
    ASSUME GeofenceTypeOK, NEW z \in Zones, NEW on \in BOOLEAN, NEW v \in Verifs,
           Crosses(z) \/ Configure(z, on, v)
    PROVE  GeofenceTypeOK'
<1>1. CASE Crosses(z)
  BY <1>1 DEF Crosses, GeofenceTypeOK, Other, Sides
<1>2. CASE Configure(z, on, v)
  <2>1. (stale[z] \/ verif[z] = 0) \in BOOLEAN
    OBVIOUS
  <2>2. stale' \in [Zones -> BOOLEAN]
    BY <1>2, <2>1 DEF Configure, GeofenceTypeOK
  <2> QED BY <1>2, <2>2 DEF Configure, GeofenceTypeOK
<1> QED BY <1>1, <1>2

LEMMA LocationTypeInit == LocationInit => LocationTypeOK
<1>1. IntervalMin \in 0 .. MaxAge /\ 0 \in 0 .. MaxAge
  BY LocationAssumption
<1> QED BY <1>1 DEF LocationInit, LocationTypeOK

Reasons == {"IMMEDIATE", "TIME", "TRIGGERS", "NONE"}

\* What the reasons mean for the ages.
LEMMA ReasonFacts ==
    ASSUME NEW req \in BOOLEAN
    PROVE  /\ Reason(req) \in Reasons
           /\ Reason(req) = "TIME" => ~FirstDue /\ MaxDue
           /\ Reason(req) = "NONE" => ~FirstDue /\ ~MaxDue
                                        /\ ~(req /\ lastAge >= IntervalMin)
           /\ Reason(req) = "TRIGGERS" => FirstDue \/ (~MaxDue /\ lastAge >= IntervalMin)
BY DEF Reason, Reasons

LEMMA PublishTypes ==
    ASSUME LocationTypeOK, NEW req \in BOOLEAN, Publishes(Reason(req))
    PROVE  /\ lastAge' = 0 /\ requested' = FALSE /\ newMonotonic' = FALSE
           /\ monoAge' \in 0 .. MaxAge
           /\ \/ monoAge' = 0
              \/ /\ Reason(req) = "TIME" /\ ~FirstDue /\ MaxDue
                 /\ monoAge' = monoAge - IntervalMax
           /\ behind' = (behind /\ monoAge' # 0)
<1> USE LocationAssumption DEF LocationTypeOK
<1>1. CASE FirstDue \/ NewMonotonic(Reason(req))
  BY <1>1 DEF Publishes, MonoAfter
<1>2. CASE ~FirstDue /\ ~NewMonotonic(Reason(req))
  <2>1. Reason(req) = "TIME"
    BY <1>2, ReasonFacts DEF NewMonotonic, Reasons, Publishes, PublishNow
  <2>2. ~FirstDue /\ MaxDue
    BY <2>1, ReasonFacts
  <2> QED BY <1>2, <2>1, <2>2 DEF Publishes, MonoAfter, MaxDue
<1> QED BY <1>1, <1>2

LEMMA PassType ==
    ASSUME LocationTypeOK, NEW raised \in BOOLEAN, LocationPass(raised)
    PROVE  LocationTypeOK'
<1> DEFINE req == requested \/ raised
<1>0. req \in BOOLEAN
  BY DEF LocationTypeOK
<1> HIDE DEF req
<1>1. /\ fresh' = TRUE /\ UNCHANGED <<config, gnss, connected>>
      /\ Waits(req, Reason(req)) \/ HeldBack(req, Reason(req)) \/ Publishes(Reason(req))
  BY DEF LocationPass, req
<1>2. CASE Waits(req, Reason(req))
  BY <1>0, <1>1, <1>2 DEF Waits, LocationTypeOK
<1>3. CASE HeldBack(req, Reason(req))
  <2>1. immediate' \in BOOLEAN /\ newMonotonic' \in BOOLEAN /\ requested' \in BOOLEAN
    BY <1>3 DEF HeldBack, Consumed, NewMonotonic
  <2> QED BY <1>1, <1>3, <2>1 DEF HeldBack, LocationTypeOK
<1>4. CASE Publishes(Reason(req))
  <2>1. immediate' \in BOOLEAN /\ first' \in BOOLEAN /\ pendingFirst' \in BOOLEAN
        /\ behind' \in BOOLEAN
    BY <1>4 DEF Publishes, Consumed
  <2>2. lastAge' \in 0 .. MaxAge
    BY <1>4, LocationAssumption DEF Publishes
  <2> QED BY <1>0, <1>1, <1>4, <2>1, <2>2, PublishTypes DEF LocationTypeOK
<1> QED BY <1>1, <1>2, <1>3, <1>4

LEMMA OlderType == \A a \in 0 .. MaxAge : Older(a) \in 0 .. MaxAge
BY LocationAssumption DEF Older

LEMMA LocationTypeSteps ==
    ASSUME LocationTypeOK, NEW now \in BOOLEAN,
           LocationSecond \/ Connection \/ GnssChanges \/ TriggerLocPub(now) \/ Acknowledged
    PROVE  LocationTypeOK'
<1>1. CASE LocationSecond
  BY <1>1, OlderType DEF LocationSecond, LocationTypeOK
<1>2. CASE Connection
  BY <1>2 DEF Connection, LocationTypeOK
<1>3. CASE GnssChanges
  BY <1>3 DEF GnssChanges, LocationTypeOK
<1>4. CASE TriggerLocPub(now)
  <2>1. immediate' \in BOOLEAN
    BY <1>4 DEF TriggerLocPub
  <2> QED BY <1>4, <2>1 DEF TriggerLocPub, LocationTypeOK
<1>5. CASE Acknowledged
  BY <1>5 DEF Acknowledged, LocationTypeOK
<1> QED BY <1>1, <1>2, <1>3, <1>4, <1>5

LEMMA TypeNext == TypeOK /\ [Next]_vars => TypeOK'
<1> SUFFICES ASSUME TypeOK, [Next]_vars PROVE TypeOK'
  OBVIOUS
<1> USE DEF TypeOK
<1>1. ASSUME NEW poor \in BOOLEAN, Pass(poor) PROVE TypeOK'
  <2>1. PICK raised \in BOOLEAN : LocationPass(raised)
    BY <1>1 DEF Pass
  <2>2. GeofenceLoop \/ UNCHANGED geofenceVars
    BY <1>1 DEF Pass
  <2>3. GeofenceTypeOK'
    BY <2>2, GeofenceLoopType DEF geofenceVars, GeofenceTypeOK
  <2> QED BY <2>1, <2>3, PassType
<1>2. CASE Second
  BY <1>2, GeofenceSecondType, LocationTypeSteps DEF Second
<1>3. CASE Moves
  BY <1>3, GeofenceTypeSteps, GeofenceAssumption DEF Moves, locationVars, LocationTypeOK
<1>4. CASE Configures
  BY <1>4, GeofenceTypeSteps DEF Configures, locationVars, LocationTypeOK
<1>5. CASE Requests
  BY <1>5, LocationTypeSteps DEF Requests, geofenceVars, GeofenceTypeOK
<1>6. CASE Environment
  BY <1>6, LocationTypeSteps DEF Environment, geofenceVars, GeofenceTypeOK
<1>7. CASE UNCHANGED vars
  BY <1>7 DEF vars, geofenceVars, locationVars, GeofenceTypeOK, LocationTypeOK
<1> QED BY <1>1, <1>2, <1>3, <1>4, <1>5, <1>6, <1>7 DEF Next

(* Every variable keeps its type: in particular the beat of the maximum       *)
(* interval never lies in the future.                                        *)
THEOREM TypeCorrect == Spec => []TypeOK
<1>1. Init => TypeOK
  BY GeofenceTypeInit, LocationTypeInit DEF Init, TypeOK
<1> QED BY <1>1, TypeNext, PTL DEF Spec

-----------------------------------------------------------------------------
(* The dwell time.  A pending event has been followed without interruption,   *)
(* unless its verification time is or was zero.                              *)

Followed(z) == \/ verif[z] = 0 \/ stale[z] \/ pending[z] = "UNKNOWN"
               \/ elapsed[z] <= seen[z][Other(pending[z])]
DwellInv == \A z \in Zones : Followed(z)

LEMMA OtherSide ==
    /\ \A s \in Sides : Other(s) \in Sides /\ Other(s) # s
    /\ \A s, t \in Sides : s # t => Other(s) = t
BY DEF Sides, Other

LEMMA DwellLoop ==
    ASSUME GeofenceTypeOK, DwellInv, GeofenceLoop, NEW z \in Zones
    PROVE  Followed(z)'
<1> USE DEF GeofenceTypeOK
<1>1. CASE enable[z] /\ Restarts(z)
  <2>1. elapsed'[z] = 0 /\ pending'[z] = side[z]
    BY <1>1 DEF GeofenceLoop
  <2>2. seen'[z] = [seen[z] EXCEPT ![side[z]] = 0]
    BY <1>1 DEF GeofenceLoop
  <2>3. seen'[z][Other(side[z])] \in Nat
    BY <2>2, OtherSide
  <2> QED BY <2>1, <2>3 DEF Followed
<1>2. CASE enable[z] /\ ~Restarts(z)
  <2>1. verif'[z] = verif[z] /\ stale'[z] = stale[z] /\ pending'[z] = pending[z]
        /\ elapsed'[z] = elapsed[z]
    BY <1>2 DEF GeofenceLoop
  <2>2. seen'[z] = [seen[z] EXCEPT ![side[z]] = 0]
    BY <1>2 DEF GeofenceLoop
  <2>3. CASE verif[z] = 0
    BY <2>1, <2>3 DEF Followed
  <2>4. CASE verif[z] # 0
    <3>1. pending[z] = side[z]
      BY <1>2, <2>4 DEF Restarts, Stable
    <3>2. seen'[z][Other(pending[z])] = seen[z][Other(pending[z])]
      BY <2>2, <3>1, OtherSide
    <3> QED BY <2>1, <3>2 DEF Followed, DwellInv
  <2> QED BY <2>3, <2>4
<1>3. CASE ~enable[z]
  BY <1>3 DEF GeofenceLoop, Followed, DwellInv
<1> QED BY <1>1, <1>2, <1>3

LEMMA DwellSecond ==
    ASSUME GeofenceTypeOK, DwellInv, GeofenceSecond, NEW z \in Zones
    PROVE  Followed(z)'
<1> USE DEF GeofenceTypeOK
<1>1. CASE verif[z] = 0 \/ stale[z] \/ pending[z] = "UNKNOWN"
  BY <1>1 DEF GeofenceSecond, Followed
<1>2. CASE ~(verif[z] = 0 \/ stale[z] \/ pending[z] = "UNKNOWN")
  <2>1. pending[z] \in Sides /\ Other(pending[z]) \in Sides
    BY <1>2, OtherSide
  <2> DEFINE e == elapsed[z]
             w == seen[z][Other(pending[z])]
  <2>2. e \in 0 .. MaxVerif /\ w \in 0 .. MaxVerif /\ e <= w
    BY <1>2, <2>1 DEF DwellInv, Followed
  <2>3. elapsed'[z] = Aged(e) /\ seen'[z][Other(pending[z])] = Aged(w)
    BY <2>1 DEF GeofenceSecond
  <2> HIDE DEF e, w
  <2>4. Aged(e) <= Aged(w)
    BY <2>2, GeofenceAssumption DEF Aged
  <2> QED BY <2>3, <2>4 DEF GeofenceSecond, Followed
<1> QED BY <1>1, <1>2

LEMMA DwellNext == TypeOK /\ DwellInv /\ [Next]_vars => DwellInv'
<1> SUFFICES ASSUME TypeOK, DwellInv, [Next]_vars, NEW z \in Zones PROVE Followed(z)'
  BY DEF DwellInv
<1> USE DEF TypeOK
<1>1. CASE UNCHANGED geofenceVars
  BY <1>1 DEF geofenceVars, DwellInv, Followed
<1>2. ASSUME NEW poor \in BOOLEAN, Pass(poor) PROVE Followed(z)'
  BY <1>1, <1>2, DwellLoop DEF Pass
<1>3. CASE Second
  BY <1>3, DwellSecond DEF Second
<1>4. CASE Moves
  BY <1>4 DEF Moves, Crosses, DwellInv, Followed
<1>5. CASE Configures
  <2>1. PICK y \in Zones, on \in BOOLEAN, v \in Verifs : Configure(y, on, v)
    BY <1>5 DEF Configures
  <2>2. UNCHANGED <<pending, elapsed, seen>>
    BY <2>1 DEF Configure
  <2>3. CASE y = z
    <3>1. stale'[z] = (stale[z] \/ verif[z] = 0)
      BY <2>1, <2>3 DEF Configure, GeofenceTypeOK
    <3> QED BY <2>2, <3>1 DEF DwellInv, Followed
  <2>4. CASE y # z
    <3>1. stale'[z] = stale[z] /\ verif'[z] = verif[z]
      BY <2>1, <2>4 DEF Configure, GeofenceTypeOK
    <3> QED BY <2>2, <3>1 DEF DwellInv, Followed
  <2> QED BY <2>3, <2>4
<1>6. CASE Requests \/ Environment \/ UNCHANGED vars
  BY <1>1, <1>6 DEF Requests, Environment, vars
<1> QED BY <1>2, <1>3, <1>4, <1>5, <1>6 DEF Next

LEMMA DwellFollows == GeofenceTypeOK /\ DwellInv => DwellSpent
<1> SUFFICES ASSUME GeofenceTypeOK, DwellInv, NEW z \in Zones, Events(z) # {}, ~stale[z]
             PROVE  seen[z][Other(side[z])] >= verif[z]
  BY DEF DwellSpent
<1>1. Triggered(z)
  BY DEF Events
<1>2. verif[z] \in Nat /\ seen[z][Other(side[z])] \in Nat /\ elapsed[z] \in Nat
  BY VerifBounds, OtherSide DEF GeofenceTypeOK
<1>3. CASE verif[z] = 0
  BY <1>2, <1>3
<1>4. CASE verif[z] # 0
  <2>1. pending[z] = side[z] /\ pending[z] # "UNKNOWN" /\ elapsed[z] >= verif[z]
    BY <1>1, <1>4 DEF Triggered, Stable, Restarts
  <2>2. elapsed[z] <= seen[z][Other(side[z])]
    BY <1>4, <2>1 DEF DwellInv, Followed
  <2> QED BY <1>2, <2>1, <2>2
<1> QED BY <1>3, <1>4

(* For any number of zones: an event is raised only when no evaluation in the  *)
(* verification time has seen the other side.                                *)
THEOREM Dwell == Spec => []DwellSpent
<1>1. Init => TypeOK /\ DwellInv
  BY GeofenceTypeInit, LocationTypeInit
     DEF Init, TypeOK, GeofenceInit, DwellInv, Followed
<1>2. TypeOK /\ DwellInv /\ [Next]_vars => (TypeOK /\ DwellInv)'
  BY TypeNext, DwellNext
<1>3. TypeOK /\ DwellInv => DwellSpent
  BY DwellFollows DEF TypeOK
<1> QED BY <1>1, <1>2, <1>3, PTL DEF Spec

-----------------------------------------------------------------------------
(* The times of the publishes.  The beat never overtakes the last publish; it  *)
(* lags behind it only by the wait for a lock, unless a publish was held back; *)
(* and a pass leaves neither of them older than the waits allow.              *)

OnBeat ==
    /\ monoAge <= lastAge + LockTimeout /\ monoAge <= IntervalMax + LockTimeout
    /\ fresh => monoAge < IntervalMax + LockTimeout
TimesInv ==
    /\ FirstDue \/ lastAge <= monoAge
    /\ FirstDue \/ behind \/ IntervalMax = 0 \/ OnBeat
    /\ PublishedInTime

\* A publish waits for a lock in these cases only.
LEMMA WaitFacts ==
    ASSUME NEW req \in BOOLEAN, ~PublishNow(Reason(req)), ~WaitsForFirst
    PROVE  /\ ~FirstDue
           /\ \/ ~MaxDue /\ ~(req /\ lastAge >= IntervalMin)
              \/ MaxDue /\ monoAge < IntervalMax + LockTimeout
              \/ ~MaxDue /\ lastAge < IntervalMin + LockTimeout
BY DEF PublishNow, LockWait, WaitsForFirst, Reason

LEMMA WaitsTimes ==
    ASSUME LocationTypeOK, TimesInv, NEW req \in BOOLEAN, fresh' = TRUE,
           Waits(req, Reason(req)), UNCHANGED <<config, gnss, connected>>
    PROVE  TimesInv'
<1> USE LocationAssumption DEF LocationTypeOK
<1>1. UNCHANGED <<lastAge, monoAge, first, pendingFirst, behind>> /\ requested' = req
      /\ ~PublishNow(Reason(req))
  BY DEF Waits
<1>2. FirstDue' = FirstDue /\ WaitsForFirst' = WaitsForFirst
  BY <1>1 DEF FirstDue, WaitsForFirst
<1>3. CASE FirstDue
  <2>1. gnss = "SEARCHING"
    BY <1>1, <1>3 DEF PublishNow, Reason, LockWait
  <2> QED BY <1>2, <1>3, <2>1 DEF TimesInv, PublishedInTime, WaitsForFirst
<1>4. CASE ~FirstDue
  <2>1. ~WaitsForFirst
    BY <1>4 DEF WaitsForFirst
  <2>2. lastAge <= monoAge
    BY <1>4 DEF TimesInv
  <2>3. /\ IntervalMax # 0 => /\ lastAge < IntervalMax + LockTimeout
                              /\ monoAge < IntervalMax + LockTimeout
        /\ req => lastAge < IntervalMin + LockTimeout \/ MaxDue
    BY <1>1, <2>1, <2>2, WaitFacts DEF MaxDue
  <2>4. PublishedInTime'
    BY <1>1, <2>3 DEF PublishedInTime, MaxDue
  <2>5. (behind \/ IntervalMax = 0 \/ OnBeat)'
    BY <1>1, <1>4, <2>3 DEF TimesInv, OnBeat
  <2> QED BY <1>1, <1>2, <2>2, <2>4, <2>5 DEF TimesInv
<1> QED BY <1>3, <1>4

LEMMA PublishTimes ==
    ASSUME LocationTypeOK, TimesInv, NEW req \in BOOLEAN, fresh' = TRUE,
           Publishes(Reason(req))
    PROVE  TimesInv'
<1> USE LocationAssumption DEF LocationTypeOK
<1>1. lastAge' = 0 /\ requested' = FALSE /\ monoAge' \in 0 .. MaxAge
  BY PublishTypes
<1>2. PublishedInTime' /\ lastAge' <= monoAge'
  BY <1>1 DEF PublishedInTime
<1>3. CASE monoAge' = 0
  BY <1>1, <1>2, <1>3 DEF TimesInv, OnBeat
<1>4. CASE monoAge' # 0
  <2>1. ~FirstDue /\ MaxDue /\ monoAge' = monoAge - IntervalMax /\ behind' = behind
    BY <1>4, PublishTypes
  <2>2. IntervalMax # 0 /\ (behind \/ monoAge' <= LockTimeout)
    BY <2>1 DEF TimesInv, OnBeat, MaxDue
  <2> QED BY <1>1, <1>2, <2>1, <2>2 DEF TimesInv, OnBeat
<1> QED BY <1>3, <1>4

LEMMA PassTimes ==
    ASSUME LocationTypeOK, TimesInv, NEW raised \in BOOLEAN, LocationPass(raised)
    PROVE  TimesInv'
<1> DEFINE req == requested \/ raised
<1>0. req \in BOOLEAN
  BY DEF LocationTypeOK
<1> HIDE DEF req
<1>1. /\ fresh' = TRUE /\ UNCHANGED <<config, gnss, connected>>
      /\ Waits(req, Reason(req)) \/ HeldBack(req, Reason(req)) \/ Publishes(Reason(req))
  BY DEF LocationPass, req
<1>2. CASE HeldBack(req, Reason(req))
  <2>1. ~CanSend' /\ behind' = TRUE /\ UNCHANGED <<lastAge, monoAge, first, pendingFirst>>
    BY <1>1, <1>2 DEF HeldBack, CanSend
  <2> QED BY <2>1 DEF TimesInv, PublishedInTime, FirstDue, MaxDue
<1> QED BY <1>0, <1>1, <1>2, WaitsTimes, PublishTimes

LEMMA SecondTimes ==
    ASSUME LocationTypeOK, TimesInv, LocationSecond
    PROVE  TimesInv'
<1> USE LocationAssumption DEF LocationTypeOK
<1>1. fresh /\ fresh' = FALSE /\ lastAge' = Older(lastAge) /\ monoAge' = Older(monoAge)
      /\ FirstDue' = FirstDue /\ behind' = behind
  BY DEF LocationSecond, FirstDue
<1>2. lastAge <= monoAge => lastAge' <= monoAge'
  BY <1>1 DEF Older
<1>3. OnBeat => OnBeat'
  BY <1>1 DEF Older, OnBeat
<1> QED BY <1>1, <1>2, <1>3 DEF TimesInv, PublishedInTime

LEMMA OtherTimes ==
    ASSUME LocationTypeOK, TimesInv, NEW now \in BOOLEAN,
           Connection \/ GnssChanges \/ TriggerLocPub(now) \/ Acknowledged
    PROVE  TimesInv'
<1>1. fresh' = FALSE /\ UNCHANGED <<lastAge, monoAge, behind>>
  BY DEF Connection, GnssChanges, TriggerLocPub, Acknowledged
<1>2. FirstDue => FirstDue'
  BY DEF Connection, GnssChanges, TriggerLocPub, Acknowledged, FirstDue
<1> QED BY <1>1, <1>2 DEF TimesInv, OnBeat, PublishedInTime

LEMMA TimesNext == TypeOK /\ TimesInv /\ [Next]_vars => TimesInv'
<1> SUFFICES ASSUME TypeOK, TimesInv, [Next]_vars PROVE TimesInv'
  OBVIOUS
<1> USE DEF TypeOK
<1>1. CASE UNCHANGED locationVars
  BY <1>1 DEF locationVars, TimesInv, OnBeat, PublishedInTime, FirstDue, MaxDue, CanSend,
              WaitsForFirst
<1>2. ASSUME NEW poor \in BOOLEAN, Pass(poor) PROVE TimesInv'
  <2>1. PICK raised \in BOOLEAN : LocationPass(raised)
    BY <1>2 DEF Pass
  <2> QED BY <2>1, PassTimes
<1>3. CASE Second
  BY <1>3, SecondTimes DEF Second
<1>4. CASE Moves \/ Configures \/ UNCHANGED vars
  BY <1>1, <1>4 DEF Moves, Configures, vars
<1>5. CASE Requests \/ Environment
  BY <1>5, OtherTimes DEF Requests, Environment
<1> QED BY <1>2, <1>3, <1>4, <1>5 DEF Next

LEMMA TimesInit == Init => TimesInv
BY DEF Init, LocationInit, TimesInv, FirstDue, PublishedInTime

(* For every choice of the intervals and of the wait for a lock: after a pass   *)
(* that could send, no publish is overdue.                                   *)
THEOREM InTime == Spec => []PublishedInTime
<1>1. Init => TypeOK /\ TimesInv
  BY GeofenceTypeInit, LocationTypeInit, TimesInit DEF Init, TypeOK
<1>2. TypeOK /\ TimesInv /\ [Next]_vars => (TypeOK /\ TimesInv)'
  BY TypeNext, TimesNext
<1>3. TimesInv => PublishedInTime
  BY DEF TimesInv
<1> QED BY <1>1, <1>2, <1>3, PTL DEF Spec

(* ... and without an outage the publishes of the maximum interval keep their   *)
(* distance.                                                                *)
THEOREM Spaced == Spec => SpacedApart
<1> DEFINE Apart == Reason(requested) = "TIME" /\ Publishes("TIME") /\ ~behind
                      => lastAge + LockTimeout >= IntervalMax
<1>1. Init => TypeOK /\ TimesInv
  BY GeofenceTypeInit, LocationTypeInit, TimesInit DEF Init, TypeOK
<1>2. TypeOK /\ TimesInv /\ [Next]_vars => (TypeOK /\ TimesInv)'
  BY TypeNext, TimesNext
<1>3. TypeOK /\ TimesInv => Apart
  <2> SUFFICES ASSUME TypeOK, TimesInv, Reason(requested) = "TIME", ~behind
               PROVE  lastAge + LockTimeout >= IntervalMax
    OBVIOUS
  <2>1. requested \in BOOLEAN
    BY DEF TypeOK, LocationTypeOK
  <2>2. ~FirstDue /\ IntervalMax # 0 /\ monoAge >= IntervalMax
    BY <2>1, ReasonFacts DEF MaxDue
  <2> QED BY <2>2, LocationAssumption DEF TimesInv, OnBeat, TypeOK, LocationTypeOK
<1> QED BY <1>1, <1>2, <1>3, PTL DEF Spec, SpacedApart

-----------------------------------------------------------------------------
(* From the geofence to the publish.                                        *)

\* What a trigger that is raised in a pass becomes.
LEMMA RaisedStays ==
    ASSUME LocationPass(TRUE)
    PROVE  lastAge' = 0 \/ requested'
BY DEF LocationPass, Waits, HeldBack, Publishes

\* The event of a change is among those of the evaluation that changes prev.
LEMMA ChangeRaises ==
    ASSUME GeofenceTypeOK, GeofenceLoop, NEW z \in Zones,
           prev[z] # "UNKNOWN", prev'[z] # prev[z]
    PROVE  (IF prev'[z] = "OUTSIDE" THEN "EXIT" ELSE "ENTER") \in Events(z)
<1>1. prev'[z] = IF enable[z] /\ Triggered(z) THEN side[z] ELSE prev[z]
  BY DEF GeofenceLoop
<1>2. enable[z] /\ Triggered(z) /\ prev'[z] = side[z] /\ prev[z] # side[z]
  BY <1>1
<1>3. prev[z] \in Sides /\ side[z] \in Sides
  BY DEF GeofenceTypeOK
<1>4. prev[z] = Other(side[z])
  BY <1>2, <1>3, OtherSide
<1>5. QED
  BY <1>2, <1>4 DEF Events

\* A zone's side changes only with its event, and with a publish or a pending
\* trigger in the same pass, for any number of zones and any intervals
\* (Geofence::loop(), EdgeLocation::loop(), evaluatePublish()).
THEOREM CrossingsReported == Spec => CrossingReported
<1>1. ASSUME TypeOK, Next, NEW z \in Zones, prev[z] # "UNKNOWN", prev'[z] # prev[z]
      PROVE  /\ (IF prev'[z] = "OUTSIDE" THEN "EXIT" ELSE "ENTER") \in Events(z)
             /\ lastAge' = 0 \/ requested'
  <2>1. PICK poor \in BOOLEAN : Pass(poor)
    BY <1>1 DEF Next, Second, GeofenceSecond, Moves, Crosses, Configures, Configure,
                Requests, Environment, geofenceVars
  <2> DEFINE evaluated == gnss = "LOCKED" /\ AnyGeofenceEnabled /\ ~poor
             raised == evaluated /\ \E y \in Zones : Events(y) # {}
  <2>2. /\ IF evaluated THEN GeofenceLoop ELSE UNCHANGED geofenceVars
        /\ LocationPass(raised)
    BY <2>1 DEF Pass
  <2>3. evaluated /\ GeofenceLoop
    BY <1>1, <2>2 DEF geofenceVars
  <2>4. (IF prev'[z] = "OUTSIDE" THEN "EXIT" ELSE "ENTER") \in Events(z)
    BY <1>1, <2>3, ChangeRaises DEF TypeOK
  <2>5. raised = TRUE
    BY <2>3, <2>4
  <2>6. LocationPass(TRUE)
    BY <2>2, <2>5
  <2>7. QED
    BY <2>4, <2>6, RaisedStays
<1>2. TypeOK /\ [Next]_vars =>
        [\A z \in Zones :
            prev[z] # "UNKNOWN" /\ prev'[z] # prev[z] =>
               /\ (IF prev'[z] = "OUTSIDE" THEN "EXIT" ELSE "ENTER") \in Events(z)
               /\ lastAge' = 0 \/ requested']_vars
  BY <1>1
<1>3. QED
  BY <1>2, TypeCorrect, PTL DEF Spec, CrossingReported
=============================================================================
