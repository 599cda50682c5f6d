------------------------------ MODULE Backend ------------------------------
(***************************************************************************)
(* The Phase I API, backend/main.py, for one tenant: its daily quota, its  *)
(* devices, its events and the sockets of its dashboards.                  *)
(*                                                                         *)
(* The tenant's row is read by a dependency on a pool thread; the body of  *)
(* submit_event runs on the event loop without a pause until the broadcast *)
(* and writes the counter it was given plus one.  EventResponse,           *)
(* DeviceResponse and TenantSecretResponse have no from_attributes: with   *)
(* pydantic 2 that is a setting, not a method, so the handlers that build  *)
(* their answer with it raise after their commit, and the broadcast behind *)
(* it is never reached.                                                    *)
(***************************************************************************)
EXTENDS Integers, FiniteSets

CONSTANTS
  Requests,    \* requests under way
  Sockets,     \* dashboard sockets of the tenant
  Quota,       \* quota_events_per_day
  MaxDevices,  \* bound on the devices registered
  MaxEvents    \* bound on the events stored

\* Assumed of the constants by MCServices and by the theorems.
NumbersAssumption == {Quota, MaxDevices, MaxEvents} \subseteq Nat

VARIABLES
  row,         \* the tenant: events_today
  events,      \* its events: stored, and published to Redis
  devices,     \* its devices, and those with a heartbeat
  sockets,     \* ws_manager.connections
  req,         \* what each submission has read, -1 when there is none
  overlapped   \* history: two submissions were under way at once

vars == <<row, events, devices, sockets, req, overlapped>>

TypeOK ==
  /\ row \in Nat
  /\ events \in [stored : 0 .. MaxEvents, published : 0 .. MaxEvents]
  /\ devices \in [known : 0 .. MaxDevices, online : 0 .. MaxDevices]
  /\ sockets \subseteq Sockets
  /\ req \in [Requests -> -1 .. MaxEvents]
  /\ overlapped \in BOOLEAN

Init ==
  /\ row = 0
  /\ events = [stored |-> 0, published |-> 0]
  /\ devices = [known |-> 0, online |-> 0]
  /\ sockets = {}
  /\ req = [r \in Requests |-> -1]
  /\ overlapped = FALSE

UnderWay == {r \in Requests : req[r] # -1}

-----------------------------------------------------------------------------
\* get_tenant_from_api_key, on a pool thread.
LoadTenant(r) ==
  /\ req[r] = -1
  /\ req' = [req EXCEPT ![r] = row]
  /\ overlapped' = (overlapped \/ UnderWay # {})
  /\ UNCHANGED <<row, events, devices, sockets>>

Done(r) == req' = [req EXCEPT ![r] = -1]

\* Mutant: the quota is compared with one event too many.
LeftOffByOne(seen) == seen <= Quota

\* check_quota, with the row as it was read.
QuotaLeft(seen) == seen < Quota

\* 429, 404 when the device is not the tenant's, or 422 when a field of the event
\* is not hexadecimal, which any request may be; nothing is stored.
Refuse(r) ==
  /\ req[r] # -1
  /\ Done(r)
  /\ UNCHANGED <<row, events, devices, sockets, overlapped>>

\* Mutant: the counter is not written.
Uncounted(seen) == row

\* tenant.events_today += 1, of the value read.
Counted(seen) == seen + 1

\* Stored, counted, committed and published, when Redis is there; then the
\* answer cannot be built.
Submit(r) ==
  /\ req[r] # -1
  /\ QuotaLeft(req[r]) /\ devices.known > 0 /\ events.stored < MaxEvents
  /\ row' = Counted(req[r])
  /\ \E redis \in {0, 1} : events' = [stored |-> events.stored + 1, published |-> events.published + redis]
  /\ Done(r)
  /\ UNCHANGED <<devices, sockets, overlapped>>

\* The device is committed, and the answer cannot be built either.
RegisterDevice ==
  /\ devices.known < MaxDevices
  /\ devices' = [devices EXCEPT !.known = @ + 1]
  /\ UNCHANGED <<row, events, sockets, req, overlapped>>

Heartbeat ==
  /\ devices.online < devices.known
  /\ devices' = [devices EXCEPT !.online = @ + 1]
  /\ UNCHANGED <<row, events, sockets, req, overlapped>>

\* connect after the key is checked, disconnect when receive_text raises.
Connect(s) ==
  /\ s \notin sockets /\ sockets' = sockets \cup {s}
  /\ UNCHANGED <<row, events, devices, req, overlapped>>

Disconnect(s) ==
  /\ s \in sockets /\ sockets' = sockets \ {s}
  /\ UNCHANGED <<row, events, devices, req, overlapped>>

Next ==
  \/ \E r \in Requests : LoadTenant(r) \/ Refuse(r) \/ Submit(r)
  \/ RegisterDevice \/ Heartbeat
  \/ \E s \in Sockets : Connect(s) \/ Disconnect(s)

Spec == Init /\ [][Next]_vars

-----------------------------------------------------------------------------
(***************************************************************************)
(* Properties.                                                             *)
(***************************************************************************)

\* The counter never says more than was stored, nor more than the quota; as long
\* as submissions do not overlap it is exact, and the quota is kept.
QuotaIsCounted ==
  /\ row <= Quota /\ row <= events.stored
  /\ ~overlapped => events.stored = row

\* "Enforces quotas" (ARCHITECTURE_SUMMARY.md:19).
QuotaEnforced == events.stored <= Quota

=============================================================================
