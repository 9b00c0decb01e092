----------------------------- MODULE GapProofs -----------------------------
(***************************************************************************)
(* That the unit keeps advertising, for every set of events and of         *)
(* statuses and every bound on them, but for the two ways out.             *)
(***************************************************************************)
EXTENDS GapAdvertising, TLAPS

(* An event that joins the others: it is the last, and they stay.          *)
LEMMA Told ==
  ASSUME NEW type, NEW status, Tell(type, status), EventsOK
  PROVE  /\ Len(events') = Len(events) + 1
         /\ events'[Len(events) + 1] = Event(type, status)
         /\ \A k \in 1..Len(events) : events'[k] = events[k]
BY DEF Tell, EventsOK

(* The type of the events on their way.                                    *)
LEMMA ToldOK ==
  ASSUME NEW type, NEW status, Tell(type, status), EventsOK,
         Event(type, status) \in Events
  PROVE  EventsOK'
BY EventsAssumption DEF Tell, EventsOK

(* The events behind the one the callback is given move up.                *)
LEMMA MovedUp ==
  ASSUME EventsOK, events # <<>>, events' = Tail(events)
  PROVE  /\ EventsOK'
         /\ Len(events') = Len(events) - 1 /\ Len(events) > 0
         /\ \A k \in 1..Len(events') : events'[k] = events[k + 1]
<1>1. events \in Seq(Events) /\ Len(events) \in Nat /\ Len(events) > 0
  BY DEF EventsOK
<1>2. events' \in Seq(Events) /\ Len(events') = Len(events) - 1
  BY <1>1
<1>3. \A k \in 1..Len(events') : events'[k] = events[k + 1]
  BY <1>1, <1>2
<1>4. EventsOK'
  BY <1>1, <1>2, EventsAssumption DEF EventsOK
<1> QED
  BY <1>1, <1>2, <1>3, <1>4

(* Starting to advertise, when nothing else is going on, leaves the unit   *)
(* advertising or refused.                                                 *)
LEMMA Tried ==
  ASSUME Advertise, ~advertising, Switches
  PROVE  advertising' <=> ~refused'
BY DEF Advertise, Switches

(* The queue of events keeps its type and its bound.                       *)
THEOREM EventsKeepType == Spec => []EventsOK
<1>1. Init => EventsOK
  BY EventsAssumption DEF Init, EventsOK
<1>2. ASSUME EventsOK, [Next]_vars  PROVE EventsOK'
  <2>1. CASE UNCHANGED events
    BY <1>2, <2>1 DEF EventsOK
  <2>2. CASE GapEvent
    BY <1>2, <2>2, MovedUp DEF GapEvent
  <2>3. ASSUME NEW status \in Statuses, CentralConnects(status)  PROVE EventsOK'
    <3>1. Event("connect", status) \in Events
      BY DEF Event, Events
    <3> QED
      BY <1>2, <2>3, <3>1, ToldOK DEF CentralConnects
  <2>4. CASE LinkLost \/ AdvertisingEnds
    <3>1. Event("disconnect", 0) \in Events /\ Event("adv_complete", 0) \in Events
      BY DEF Event, Events
    <3> QED
      BY <1>2, <2>4, <3>1, ToldOK DEF LinkLost, AdvertisingEnds
  <2>5. CASE ConnectionChanges
    <3>1. \A type \in OtherEvents : Event(type, 0) \in Events
      BY DEF Event, Events
    <3> QED
      BY <1>2, <2>5, <3>1, ToldOK DEF ConnectionChanges
  <2>6. CASE Reset
    BY <2>6, EventsAssumption DEF Reset, EventsOK
  <2> QED
    BY <1>2, <2>1, <2>2, <2>3, <2>4, <2>5, <2>6 DEF Next, Sync, Radio, vars
<1> QED
  BY <1>1, <1>2, PTL DEF Spec

-----------------------------------------------------------------------------
(* A step that appends an event from a state in which none resumes.        *)
LEMMA OneMore ==
  ASSUME NEW type, NEW status, Tell(type, status), EventsOK, ResumesWhenSilent,
         advertising \/ connected,
         Resumes(Event(type, status)) => synced' /\ ~advertising' /\ ~connected'
  PROVE  ResumesWhenSilent'
<1>1. \A k \in 1..Len(events) : ~Resumes(events[k])
  BY DEF ResumesWhenSilent
<1>2. Len(events) \in Nat /\ Len(events') = Len(events) + 1
  BY Told DEF EventsOK
<1>3. ASSUME NEW k \in 1..Len(events'), Resumes(events'[k])
      PROVE  k = Len(events) + 1
  BY <1>1, <1>2, <1>3, Told
<1>4. events'[Len(events) + 1] = Event(type, status)
  BY Told
<1> QED
  BY <1>3, <1>4 DEF ResumesWhenSilent

(* The unit never advertises while it is connected, and what is to make it *)
(* advertise is on its way once.                                           *)
THEOREM OneThingAtATime == Spec => [](RadioOK /\ ResumesWhenSilent)
<1>1. Init => RadioOK /\ ResumesWhenSilent
  BY DEF Init, RadioOK, ResumesWhenSilent
<1>2. ASSUME EventsOK, RadioOK, ResumesWhenSilent, [Next]_vars
      PROVE  RadioOK' /\ ResumesWhenSilent'
  <2>1. CASE Sync
    <3>1. \A k \in 1..Len(events) : ~Resumes(events[k])
      BY <1>2, <2>1 DEF Sync, ResumesWhenSilent
    <3>2. UNCHANGED <<connected, events, unheard>> /\ synced' /\ ~connected
      BY <1>2, <2>1 DEF Sync, RadioOK
    <3> QED
      BY <3>1, <3>2 DEF RadioOK, ResumesWhenSilent
  <2>2. CASE GapEvent
    <3>1. /\ Len(events') = Len(events) - 1 /\ Len(events) > 0
          /\ \A k \in 1..Len(events') : events'[k] = events[k + 1]
      BY <1>2, <2>2, MovedUp DEF GapEvent
    <3>2. Len(events) \in Nat /\ 1 \in 1..Len(events) /\ Head(events) = events[1]
      BY <1>2, <3>1 DEF EventsOK
    <3>3. \A k \in 1..Len(events') : k + 1 \in 1..Len(events) /\ k + 1 # 1
      BY <3>1, <3>2
    <3>4. CASE Resumes(Head(events))
      <4>1. \A k \in 1..Len(events') : ~Resumes(events'[k])
        BY <1>2, <3>1, <3>2, <3>3, <3>4 DEF ResumesWhenSilent
      <4>2. synced /\ ~connected
        BY <1>2, <3>2, <3>4 DEF ResumesWhenSilent
      <4>3. UNCHANGED <<synced, connected, unheard>>
        BY <2>2 DEF GapEvent
      <4> QED
        BY <4>1, <4>2, <4>3 DEF RadioOK, ResumesWhenSilent
    <3>5. CASE ~Resumes(Head(events))
      <4>1. UNCHANGED <<synced, connected, advertising, unheard>>
        BY <2>2, <3>5
           DEF GapEvent, OnConnect, OnDisconnect, OnAdvComplete, OnOther, Resumes
      <4>2. RadioOK'
        BY <1>2, <4>1 DEF RadioOK
      <4>3. ASSUME NEW k \in 1..Len(events'), Resumes(events'[k])
            PROVE  /\ synced /\ ~advertising /\ ~connected
                   /\ \A i \in 1..Len(events') : Resumes(events'[i]) => i = k
        <5>1. Resumes(events[k + 1]) /\ k + 1 \in 1..Len(events)
          BY <3>1, <3>3, <4>3
        <5>2. \A i \in 1..Len(events') : Resumes(events'[i]) => i + 1 = k + 1
          BY <1>2, <3>1, <3>3, <5>1 DEF ResumesWhenSilent
        <5>3. \A i \in 1..Len(events') : i + 1 = k + 1 => i = k
          BY <3>1, <3>2
        <5> QED
          BY <1>2, <5>1, <5>2, <5>3 DEF ResumesWhenSilent
      <4> QED
        BY <4>1, <4>2, <4>3 DEF ResumesWhenSilent
    <3> QED
      BY <3>4, <3>5
  <2>3. ASSUME NEW status \in Statuses, CentralConnects(status)
        PROVE  RadioOK' /\ ResumesWhenSilent'
    <3>1. synced' /\ ~advertising' /\ (connected' <=> status = CONNECTION_ESTABILISHED)
      BY <1>2, <2>3 DEF CentralConnects, RadioOK
    <3>2. Resumes(Event("connect", status)) => ~connected'
      BY <3>1 DEF Resumes, Event, CONNECTION_ESTABILISHED, CONNECTION_ATTEMPT_FAILED
    <3> QED
      BY <1>2, <2>3, <3>1, <3>2, OneMore DEF CentralConnects, RadioOK
  <2>4. CASE LinkLost \/ AdvertisingEnds
    <3>1. synced' /\ ~advertising' /\ ~connected' /\ (advertising \/ connected)
      BY <1>2, <2>4 DEF LinkLost, AdvertisingEnds, RadioOK
    <3> QED
      BY <1>2, <2>4, <3>1, OneMore DEF LinkLost, AdvertisingEnds, RadioOK
  <2>5. CASE ConnectionChanges
    <3>1. connected /\ UNCHANGED <<synced, advertising, connected, unheard>>
      BY <2>5 DEF ConnectionChanges
    <3>2. PICK type \in OtherEvents : Tell(type, 0)
      BY <2>5 DEF ConnectionChanges
    <3>3. ~Resumes(Event(type, 0))
      BY OtherAssumption DEF Resumes, Event
    <3> QED
      BY <1>2, <3>1, <3>2, <3>3, OneMore DEF RadioOK
  <2>6. CASE Reset
    BY <2>6 DEF Reset, RadioOK, ResumesWhenSilent
  <2>7. CASE UNCHANGED vars
    BY <1>2, <2>7 DEF vars, RadioOK, ResumesWhenSilent, Resumes
  <2> QED
    BY <1>2, <2>1, <2>2, <2>3, <2>4, <2>5, <2>6, <2>7 DEF Next, Radio
<1> QED
  BY <1>1, <1>2, EventsKeepType, PTL DEF Spec

(* Every variable keeps its type.                                          *)
THEOREM TypeCorrect == Spec => []TypeOK
<1>1. Init => Switches
  BY DEF Init, Switches
<1>2. ASSUME Switches, [Next]_vars  PROVE Switches'
  <2> USE <1>2 DEF Switches
  <2>1. CASE Sync \/ GapEvent
    BY <2>1 DEF Sync, GapEvent, OnConnect, OnDisconnect, OnAdvComplete, OnOther, Advertise
  <2>2. CASE Radio
    BY <2>2 DEF Radio, CentralConnects, LinkLost, AdvertisingEnds, ConnectionChanges, Reset
  <2>3. CASE UNCHANGED vars
    BY <2>3 DEF vars
  <2> QED
    BY <2>1, <2>2, <2>3 DEF Next
<1> QED
  BY <1>1, <1>2, EventsKeepType, OneThingAtATime, PTL DEF Spec, TypeOK

-----------------------------------------------------------------------------
(* A unit in step with its radio advertises, is connected or is about to   *)
(* advertise, whatever the status of a connection event, until it has been *)
(* refused or a status has been passed over: and after either it is silent *)
(* until the host starts over.                                             *)
THEOREM AlwaysKeepsAdvertising == Spec => []KeepsAdvertising
<1>1. Init => KeepsAdvertising
  BY DEF Init, KeepsAdvertising
<1>2. ASSUME TypeOK, ResumesWhenSilent, KeepsAdvertising, [Next]_vars
      PROVE  KeepsAdvertising'
  <2> USE <1>2 DEF TypeOK
  <2>1. CASE Sync
    <3>1. ~advertising /\ ~connected /\ ~unheard
      BY <2>1 DEF Sync, RadioOK
    <3>2. \A k \in 1..Len(events) : ~Resumes(events[k])
      BY <2>1 DEF Sync, ResumesWhenSilent
    <3>3. advertising' <=> ~refused'
      BY <2>1, <3>1, Tried DEF Sync, Switches
    <3>4. UNCHANGED <<connected, events, unheard>>
      BY <2>1 DEF Sync
    <3> QED
      BY <3>1, <3>2, <3>3, <3>4 DEF KeepsAdvertising, Reachable
  <2>2. CASE GapEvent
    <3>1. /\ Len(events') = Len(events) - 1 /\ Len(events) > 0
          /\ \A k \in 1..Len(events') : events'[k] = events[k + 1]
      BY <2>2, MovedUp DEF GapEvent
    <3>2. Len(events) \in Nat /\ 1 \in 1..Len(events) /\ Head(events) = events[1]
      BY <3>1 DEF EventsOK
    <3>3. \A k \in 1..Len(events') : k + 1 \in 1..Len(events) /\ k + 1 # 1
      BY <3>1, <3>2
    <3>4. synced /\ UNCHANGED <<synced, connected, unheard>>
      BY <2>2 DEF GapEvent
    <3>5. CASE Resumes(Head(events))
      <4>1. Advertise
        BY <2>2, <3>5, OtherAssumption
           DEF GapEvent, OnConnect, OnDisconnect, OnAdvComplete, OnOther, Resumes
      <4>2. \A k \in 1..Len(events') : ~Resumes(events'[k])
        BY <3>1, <3>2, <3>3, <3>5 DEF ResumesWhenSilent
      <4>3. ~advertising /\ ~connected /\ ~unheard
        BY <3>2, <3>4, <3>5 DEF ResumesWhenSilent, KeepsAdvertising, Reachable
      <4>4. advertising' <=> ~refused'
        BY <4>1, <4>3, Tried
      <4> QED
        BY <3>4, <4>2, <4>3, <4>4 DEF KeepsAdvertising, Reachable
    <3>6. CASE ~Resumes(Head(events))
      <4>1. UNCHANGED <<advertising, refused>>
        BY <2>2, <3>6
           DEF GapEvent, OnConnect, OnDisconnect, OnAdvComplete, OnOther, Resumes
      <4>2. ASSUME NEW k \in 1..Len(events), Resumes(events[k])
            PROVE  \E i \in 1..Len(events') : Resumes(events'[i])
        <5>1. k # 1
          BY <3>2, <3>6, <4>2
        <5>2. k - 1 \in 1..Len(events') /\ events'[k - 1] = events[k]
          BY <3>1, <3>2, <5>1
        <5> QED
          BY <4>2, <5>2
      <4>3. ASSUME NEW k \in 1..Len(events'), Resumes(events'[k])
            PROVE  \E i \in 1..Len(events) : Resumes(events[i])
        BY <3>1, <3>3, <4>3
      <4> QED
        BY <3>4, <4>1, <4>2, <4>3 DEF KeepsAdvertising, Reachable
    <3> QED
      BY <3>5, <3>6
  <2>3. ASSUME NEW type, NEW status, Tell(type, status), advertising \/ connected, synced',
               UNCHANGED refused,
               advertising' \/ connected' \/ Resumes(Event(type, status)) <=> ~unheard'
        PROVE  KeepsAdvertising'
    <3>1. \A k \in 1..Len(events) : ~Resumes(events[k])
      BY <2>3 DEF ResumesWhenSilent
    <3>2. synced /\ ~refused
      BY <2>3 DEF RadioOK, KeepsAdvertising, Reachable
    <3>3. /\ Len(events) \in Nat /\ Len(events') = Len(events) + 1
          /\ events'[Len(events) + 1] = Event(type, status)
          /\ \A k \in 1..Len(events) : events'[k] = events[k]
      BY <2>3, Told DEF EventsOK
    <3>4. (\E k \in 1..Len(events') : Resumes(events'[k])) <=> Resumes(Event(type, status))
      BY <3>1, <3>3
    <3> QED
      BY <2>3, <3>2, <3>4 DEF KeepsAdvertising, Reachable
  <2>4. ASSUME NEW status \in Statuses, CentralConnects(status)  PROVE KeepsAdvertising'
    <3>1. Resumes(Event("connect", status)) <=> status = CONNECTION_ATTEMPT_FAILED
      BY DEF Resumes, Event
    <3>2. synced' /\ advertising /\ ~advertising' /\ UNCHANGED refused
      BY <2>4 DEF CentralConnects, RadioOK
    <3>3. connected' \/ Resumes(Event("connect", status)) <=> ~unheard'
      BY <2>4, <3>1 DEF CentralConnects
    <3> QED
      BY <2>3, <2>4, <3>2, <3>3 DEF CentralConnects
  <2>5. CASE LinkLost \/ AdvertisingEnds
    <3>1. Resumes(Event("disconnect", 0)) /\ Resumes(Event("adv_complete", 0))
      BY DEF Resumes, Event
    <3>2. synced' /\ (advertising \/ connected) /\ UNCHANGED refused
      BY <2>5 DEF LinkLost, AdvertisingEnds, RadioOK
    <3>3. ~unheard'
      BY <2>5, <3>2 DEF LinkLost, AdvertisingEnds, RadioOK, KeepsAdvertising, Reachable
    <3> QED
      BY <2>3, <2>5, <3>1, <3>2, <3>3 DEF LinkLost, AdvertisingEnds
  <2>6. CASE ConnectionChanges
    <3>1. connected /\ UNCHANGED <<synced, advertising, connected, refused, unheard>>
      BY <2>6 DEF ConnectionChanges
    <3>2. PICK type \in OtherEvents : Tell(type, 0)
      BY <2>6 DEF ConnectionChanges
    <3>3. synced' /\ ~unheard'
      BY <3>1 DEF RadioOK, KeepsAdvertising, Reachable
    <3> QED
      BY <2>3, <3>1, <3>2, <3>3
  <2>7. CASE Reset
    BY <2>7 DEF Reset, KeepsAdvertising
  <2>8. CASE UNCHANGED vars
    BY <2>8 DEF vars, KeepsAdvertising, Reachable, Resumes
  <2> QED
    BY <2>1, <2>2, <2>4, <2>5, <2>6, <2>7, <2>8 DEF Next, Radio
<1> QED
  BY <1>1, <1>2, TypeCorrect, OneThingAtATime, PTL DEF Spec
=============================================================================
