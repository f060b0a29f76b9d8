------------------------------ MODULE Bleprph ------------------------------
(***************************************************************************)
(* The Bluetooth peripheral of the applications, lib/bleprph/src.  Its     *)
(* callbacks run in the host task of NimBLE, one at a time; the controller *)
(* goes on meanwhile, and its events wait for the host task.  NimBLE and   *)
(* the controller are external: link, events, synced.                      *)
(*                                                                         *)
(* Events that change nothing (encryption, subscriptions, MTU) are one,    *)
(* "update"; the lookups of the connection that the handlers assert to     *)
(* succeed do so, NimBLE forgets a connection only right before it reports *)
(* the disconnect.  Reasons, names and advertised data are left out.       *)
(***************************************************************************)
EXTENDS Naturals, Sequences

CONSTANT Pending      \* bound: events that wait for the host task

ASSUME PendingAssumption == Pending \in Nat \ {0}

VARIABLES
  link,       \* the controller: off, advertising or connected
  events,     \* its events, oldest first
  synced,     \* the host and the controller are in sync
  attached,   \* the host has a connection
  connected,  \* g_bleprph_connected
  at,         \* the host task: idle, or in bleprph_advertise, or after it
  resume,     \* where it goes on after bleprph_advertise
  silenced    \* since advertising was last started, or the host last reset, a
              \* start has failed or ble_stop has been called

host == <<synced, attached, connected, at, resume, silenced>>
vars == <<link, events, host>>

Event == {"connect", "failed", "disconnect", "update", "complete", "reset"}

TypeOK ==
  /\ link \in {"off", "advertising", "connected"}
  /\ events \in Seq(Event)
  /\ synced \in BOOLEAN /\ attached \in BOOLEAN /\ silenced \in BOOLEAN
  /\ connected \in {0, 1}
  /\ at \in {"idle", "advertise", "clear", "reset"}
  /\ resume \in {"idle", "clear"}

\* ble_init sets the callbacks; sysinit starts the host.
Init ==
  /\ link = "off"
  /\ events = <<>>
  /\ synced = FALSE /\ attached = FALSE
  /\ connected = 0
  /\ at = "idle" /\ resume = "idle"
  /\ silenced = FALSE

-----------------------------------------------------------------------------
(***************************************************************************)
(* The controller and the central (external).                              *)
(***************************************************************************)

Report(from, to, e) ==
  /\ link = from
  /\ Len(events) < Pending
  /\ link' = to
  /\ events' = Append(events, e)
  /\ UNCHANGED host

Controller ==
  \/ Report("advertising", "connected", "connect")
  \/ Report("advertising", "off", "failed")
  \/ Report("advertising", "off", "complete")
  \/ Report("connected", "off", "disconnect")
  \/ Report("connected", "connected", "update")

\* The controller fails: the host finds out, and resets it.
ControllerReset ==
  /\ synced
  /\ link' = "off"
  /\ events' = <<"reset">>
  /\ UNCHANGED host

-----------------------------------------------------------------------------
(***************************************************************************)
(* bleprph_gap_event, one action per event.                                *)
(***************************************************************************)

Take(e) ==
  /\ at = "idle"
  /\ events # <<>> /\ Head(events) = e
  /\ events' = Tail(events)

\* bleprph_advertise, then the rest of the handler.
AdvertiseThen(step) ==
  /\ at' = "advertise"
  /\ resume' = step

Connect ==
  /\ Take("connect")
  /\ attached' = TRUE
  /\ connected' = 1
  /\ UNCHANGED <<link, synced, at, resume, silenced>>

ConnectFailedStatus ==
  /\ Take("failed")
  /\ connected' = 2
  /\ AdvertiseThen("idle")
  /\ UNCHANGED <<link, synced, attached, silenced>>
ConnectFailedSilent ==
  /\ Take("failed")
  /\ UNCHANGED <<link, host>>
ConnectFailed ==
  /\ Take("failed")
  /\ AdvertiseThen("idle")
  /\ UNCHANGED <<link, synced, attached, connected, silenced>>

\* Advertising is resumed first; the flag is cleared in the end.
DisconnectForgotten ==
  /\ Take("disconnect")
  /\ attached' = FALSE
  /\ AdvertiseThen("idle")
  /\ UNCHANGED <<link, synced, connected, silenced>>
Disconnect ==
  /\ Take("disconnect")
  /\ attached' = FALSE
  /\ AdvertiseThen("clear")
  /\ UNCHANGED <<link, synced, connected, silenced>>
Disconnected ==
  /\ at = "clear"
  /\ connected' = 0
  /\ at' = IF synced THEN "idle" ELSE "reset"
  /\ UNCHANGED <<link, events, synced, attached, resume, silenced>>

Update ==
  /\ Take("update")
  /\ UNCHANGED <<link, host>>

AdvComplete ==
  /\ Take("complete")
  /\ AdvertiseThen("idle")
  /\ UNCHANGED <<link, synced, attached, connected, silenced>>

-----------------------------------------------------------------------------
\* bleprph_advertise fails at any of its three calls of NimBLE: always while the
\* host is out of sync or the radio is in use, and for reasons of NimBLE's own
\* otherwise.  The failure is logged.
Advertise(fails) ==
  /\ at = "advertise"
  /\ at' = resume
  /\ resume' = "idle"
  /\ IF ~synced \/ link # "off" \/ fails
       THEN /\ silenced' = (silenced \/ (synced /\ link = "off"))
            /\ UNCHANGED link
       ELSE /\ link' = "advertising"
            /\ silenced' = FALSE
  /\ UNCHANGED <<events, synced, attached, connected>>

\* NimBLE resets its host: the connection, if there is one, is reported as
\* terminated, which tries to advertise, and bleprph_on_reset is called.  What
\* the controller had to report is lost, and what silenced the node before the
\* reset counts no more: it has to be started again.
HostReset ==
  /\ at = "idle"
  /\ events # <<>> /\ Head(events) = "reset"
  /\ events' = <<>> /\ link' = "off"
  /\ synced' = FALSE
  /\ attached' = FALSE
  /\ IF attached THEN AdvertiseThen("clear")
                 ELSE at' = "reset" /\ UNCHANGED resume
  /\ silenced' = FALSE
  /\ UNCHANGED connected
OnReset ==
  /\ at = "reset"
  /\ at' = "idle"
  /\ UNCHANGED <<link, events, synced, attached, connected, resume, silenced>>

\* bleprph_on_sync
OnSyncSilent ==
  /\ at = "idle" /\ ~synced
  /\ synced' = TRUE
  /\ UNCHANGED <<link, events, attached, connected, at, resume, silenced>>
OnSync ==
  /\ at = "idle" /\ ~synced
  /\ synced' = TRUE
  /\ AdvertiseThen("idle")
  /\ UNCHANGED <<link, events, attached, connected, silenced>>

\* ble_stop, in a task of the application.
Stop ==
  /\ synced
  /\ link = "advertising"
  /\ link' = "off"
  /\ silenced' = TRUE
  /\ UNCHANGED <<events, synced, attached, connected, at, resume>>

-----------------------------------------------------------------------------
HostStep ==
  \/ Connect \/ ConnectFailed \/ Disconnect \/ Disconnected
  \/ Update \/ AdvComplete \/ HostReset \/ OnReset \/ OnSync
  \/ \E fails \in BOOLEAN : Advertise(fails)

Next == Controller \/ ControllerReset \/ HostStep \/ Stop

Spec == Init /\ [][Next]_vars

\* The host task goes on.
Fairness == WF_vars(HostStep)

-----------------------------------------------------------------------------
Settled == synced /\ at = "idle" /\ events = <<>>

\* What ble_is_connected tells is true once the host task has nothing left to
\* do, through every order of connections, disconnects and resets.
FlagTrue == Settled => (connected = 1) = (link = "connected")

\* The node can neither be found nor is it connected only because a start of
\* advertising failed, or ble_stop was called, and since then none succeeded and
\* the host did not reset: bleprph_on_sync starts it also where it was silent, or
\* stopped, before the reset.
SilentOnlyByFailure == Settled /\ link = "off" => silenced

\* A reset ends the silence: a host that went out of sync, whatever had silenced the
\* node by then, starts to advertise again, unless that start fails.  The history
\* before the reset is no excuse: while out of sync, silenced is FALSE.
ResetRevives == ~synced ~> (link = "advertising" \/ silenced)
=============================================================================
