--------------------------- MODULE GapAdvertising ---------------------------
(***************************************************************************)
(* How the IO unit stays reachable: it advertises until a central connects *)
(* and starts again when the connection, or the attempt at one, is over.   *)
(* The radio stops advertising by itself when a central connects, and what *)
(* it does reaches the callback bleprph_gap_event later, as events in the  *)
(* order they happened; the callback alone starts advertising again, with  *)
(* calls that can be refused and that it does not repeat.                  *)
(*                                                                         *)
(* The radio and the NimBLE host are modelled from the way the callbacks   *)
(* use them: one central at a time, no events while the host is out of     *)
(* step with the radio.                                                    *)
(***************************************************************************)
EXTENDS Integers, Sequences

CONSTANTS
  Statuses,       \* the status a connection event can have; 0 is success
  OtherEvents,    \* events of a connection the callback has nothing to do for
  MayRefuse,      \* can the calls that start advertising fail?
  MaxEvents       \* bound: events on their way to the callback

CONNECTION_ESTABILISHED == 0

CONNECTION_ATTEMPT_FAILED == 1

ASSUME StatusesAssumption == Statuses \subseteq Nat
ASSUME OtherAssumption    == OtherEvents \cap {"connect", "disconnect", "adv_complete"} = {}
ASSUME RefusalAssumption  == MayRefuse \in BOOLEAN
ASSUME EventsAssumption   == MaxEvents \in Nat \ {0}

VARIABLES
  synced,         \* the host is in step with the radio
  advertising,    \* the radio advertises
  connected,      \* the radio is connected to a central
  events,         \* what has not reached the callback yet
  refused,        \* history: the last try to start advertising was refused
  unheard         \* history: advertising ended with a status the callback passes over

vars == <<synced, advertising, connected, events, refused, unheard>>

Event(type, status) == [type |-> type, status |-> status]

Events ==
  [type : OtherEvents \cup {"connect", "disconnect", "adv_complete"},
   status : Statuses \cup {0}]

Switches ==
  /\ synced \in BOOLEAN /\ advertising \in BOOLEAN /\ connected \in BOOLEAN
  /\ refused \in BOOLEAN /\ unheard \in BOOLEAN

EventsOK == events \in Seq(Events) /\ Len(events) <= MaxEvents

(* One thing at a time, and none of them out of step.                      *)
RadioOK == ~(advertising /\ connected) /\ (advertising \/ connected \/ unheard => synced)

TypeOK == Switches /\ EventsOK /\ RadioOK

Init ==
  /\ synced = FALSE /\ advertising = FALSE /\ connected = FALSE
  /\ events = <<>>
  /\ refused = FALSE /\ unheard = FALSE

-----------------------------------------------------------------------------
(* bleprph_advertise.  Setting the data or starting can be refused, and it *)
(* returns with nothing but a line in the log.                             *)
Advertise ==
  \/ advertising' = TRUE /\ refused' = FALSE
  \/ MayRefuse /\ refused' = TRUE /\ UNCHANGED advertising

(* bleprph_on_sync.  Without an address it does not come to advertising.   *)
Sync ==
  /\ ~synced
  /\ synced' = TRUE
  /\ \/ Advertise
     \/ MayRefuse /\ refused' = TRUE /\ UNCHANGED advertising
  /\ UNCHANGED <<connected, events, unheard>>

-----------------------------------------------------------------------------
(* bleprph_gap_event, one branch for each event it has something to do     *)
(* for.  A mutant first: it resumes advertising whatever the status.       *)
OnConnectResuming(e) ==
  /\ e.type = "connect"
  /\ Advertise

OnConnect(e) ==
  /\ e.type = "connect"
  /\ IF e.status = CONNECTION_ATTEMPT_FAILED THEN Advertise
                                             ELSE UNCHANGED <<advertising, refused>>

(* Mutants: branches that forget to resume advertising.                    *)
OnDisconnectForgotten(e) ==
  /\ e.type = "disconnect"
  /\ UNCHANGED <<advertising, refused>>

OnDisconnect(e) ==
  /\ e.type = "disconnect"
  /\ Advertise

OnAdvCompleteForgotten(e) ==
  /\ e.type = "adv_complete"
  /\ UNCHANGED <<advertising, refused>>

OnAdvComplete(e) ==
  /\ e.type = "adv_complete"
  /\ Advertise

OnOther(e) ==
  /\ e.type \in OtherEvents
  /\ UNCHANGED <<advertising, refused>>

GapEvent ==
  /\ synced /\ events # <<>>
  /\ LET e == Head(events)
     IN  OnConnect(e) \/ OnDisconnect(e) \/ OnAdvComplete(e) \/ OnOther(e)
  /\ events' = Tail(events)
  /\ UNCHANGED <<synced, connected, unheard>>

-----------------------------------------------------------------------------
(* The radio, and what it tells the host.                                  *)
Tell(type, status) ==
  /\ Len(events) < MaxEvents
  /\ events' = Append(events, Event(type, status))

CentralConnects(status) ==
  /\ advertising
  /\ advertising' = FALSE
  /\ connected' = (status = CONNECTION_ESTABILISHED)
  /\ unheard' = (status \notin {CONNECTION_ESTABILISHED, CONNECTION_ATTEMPT_FAILED})
  /\ Tell("connect", status)
  /\ UNCHANGED <<synced, refused>>

LinkLost ==
  /\ connected
  /\ connected' = FALSE
  /\ Tell("disconnect", 0)
  /\ UNCHANGED <<synced, advertising, refused, unheard>>

AdvertisingEnds ==
  /\ advertising
  /\ advertising' = FALSE
  /\ Tell("adv_complete", 0)
  /\ UNCHANGED <<synced, connected, refused, unheard>>

ConnectionChanges ==
  /\ connected
  /\ \E type \in OtherEvents : Tell(type, 0)
  /\ UNCHANGED <<synced, advertising, connected, refused, unheard>>

(* The host loses step with the radio and starts over: bleprph_on_reset    *)
(* only logs, and what the callback tries meanwhile comes to nothing.      *)
Reset ==
  /\ synced
  /\ synced' = FALSE /\ advertising' = FALSE /\ connected' = FALSE
  /\ events' = <<>> /\ unheard' = FALSE
  /\ UNCHANGED refused

-----------------------------------------------------------------------------
Radio ==
  \/ \E status \in Statuses : CentralConnects(status)
  \/ LinkLost \/ AdvertisingEnds \/ ConnectionChanges \/ Reset

Next == Sync \/ GapEvent \/ Radio

Spec == Init /\ [][Next]_vars

(* The host task runs when there is something for it to do; nothing is     *)
(* asked of centrals and of the radio.                                     *)
FairSpec == Spec /\ WF_vars(Sync) /\ WF_vars(GapEvent)

-----------------------------------------------------------------------------
Resumes(e) ==
  \/ e.type \in {"disconnect", "adv_complete"}
  \/ e.type = "connect" /\ e.status = CONNECTION_ATTEMPT_FAILED

Reachable ==
  advertising \/ connected \/ \E k \in 1..Len(events) : Resumes(events[k])

(* "Just keep on advertising until a connection is made": a unit in step   *)
(* with its radio advertises, is connected, or has an event on its way     *)
(* that makes it advertise, but for two ways out, each of which leaves it  *)
(* silent until the host starts over: it has been refused, or a connection *)
(* has come to nothing with a status the callback passes over.             *)
KeepsAdvertising == synced => (Reachable <=> ~refused /\ ~unheard)

(* The other way round: the events that make it advertise are on their way *)
(* one at a time, and only while it does nothing else.                     *)
ResumesWhenSilent ==
  \A k \in 1..Len(events) : Resumes(events[k]) =>
    /\ synced /\ ~advertising /\ ~connected
    /\ \A i \in 1..Len(events) : Resumes(events[i]) => i = k

(* It does not stay out of reach: again and again it can be connected to   *)
(* or is connected, until one of the two ways out is taken.                *)
StaysReachable == []<>(advertising \/ connected \/ refused \/ unheard)
=============================================================================
