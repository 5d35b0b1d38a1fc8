----------------------------- MODULE NameProbing -----------------------------
(***************************************************************************)
(* Several service servers on one link, claiming names.                    *)
(*                                                                         *)
(* Each server is the probe -> announce -> live machine of                 *)
(* basic_service_server with its response timer counting down in units of  *)
(* which Units make a probe_interval (250 ms).  A packet is in flight for  *)
(* less than a unit: time passes only when every packet has been delivered *)
(* or lost and no timer is due.  An idle server has no socket yet.         *)
(* Queries other than probes do not matter here.                           *)
(***************************************************************************)
EXTENDS Naturals, FiniteSets

CONSTANTS
    Servers,        \* the servers on the link
    Names,          \* service names
    FirstName,      \* FirstName[s]: the name s starts with
    Host,           \* Host[s]: the host name of s
    Rank,           \* Rank[s]: the place of the SRV data of s in byte order
    ProbeCount,     \* service_options::probe_count
    AnnounceCount,  \* service_options::announce_count
    Units,          \* units of time in a probe_interval
    MaxRenames,     \* on_conflict gives up after so many attempts
    MaxLost         \* bound on the packets the link loses

ASSUME Setting ==
    /\ FirstName \in [Servers -> Names]
    /\ Rank \in [Servers -> Nat]
    /\ ProbeCount \in 1..255 /\ AnnounceCount \in 1..255
    /\ Units \in Nat \ {0}
    /\ MaxRenames \in Nat /\ MaxLost \in Nat

VARIABLES
    state,    \* m_pa_state.state of each server
    name,     \* m_info.service_name
    count,    \* probe_count while probing, announce_count while announcing
    attempt,  \* conflict_attempt
    timer,    \* units until m_response_timer expires; Off: no wait
    next,     \* what its handler does
    flying,   \* packets in flight
    lost      \* packets lost so far

vars == <<state, name, count, attempt, timer, next, flying, lost>>

\* The default durations: 250 ms, 250 ms, 1 s and 1 s.
InitialDelays == 0..Units
ProbeInterval == Units
DeferDelay == 4 * Units
AnnounceInterval == 4 * Units
Off == DeferDelay + AnnounceInterval

-----------------------------------------------------------------------------
Init ==
    /\ state = [s \in Servers |-> "idle"]
    /\ name = FirstName
    /\ count = [s \in Servers |-> 0]
    /\ attempt = [s \in Servers |-> 0]
    /\ timer = [s \in Servers |-> Off]
    /\ next = [s \in Servers |-> "none"]
    /\ flying = {}
    /\ lost = 0

Arm(s, delay, handler) ==
    /\ timer' = [timer EXCEPT ![s] = delay]
    /\ next' = [next EXCEPT ![s] = handler]

Expired(s, handler) == timer[s] = 0 /\ next[s] = handler

Multicast(s, kind) ==
    flying' = flying \cup [kind : {kind}, from : {s}, to : Servers \ {s},
                           name : {name[s]}]

\* start_probing()
StartProbing(s) ==
    /\ state' = [state EXCEPT ![s] = "probing"]
    /\ count' = [count EXCEPT ![s] = 0]
    /\ \E delay \in InitialDelays : Arm(s, delay, "probe")

\* async_start()
Start(s) ==
    /\ state[s] = "idle"
    /\ StartProbing(s)
    /\ UNCHANGED <<name, attempt, flying, lost>>

\* Mutant: the counter is compared before it is advanced.
SendProbe_OneMore(s) ==
    /\ Expired(s, "probe")
    /\ Multicast(s, "probe")
    /\ count' = [count EXCEPT ![s] = @ + 1]
    /\ Arm(s, ProbeInterval, IF count[s] < ProbeCount THEN "probe" ELSE "claim")
    /\ UNCHANGED <<state, name, attempt, lost>>

SendProbe(s) ==
    /\ Expired(s, "probe")
    /\ Multicast(s, "probe")
    /\ count' = [count EXCEPT ![s] = @ + 1]
    /\ Arm(s, ProbeInterval, IF count[s] + 1 < ProbeCount THEN "probe" ELSE "claim")
    /\ UNCHANGED <<state, name, attempt, lost>>

\* send_announce(), the first time from start_announcing().
SendAnnounce(s) ==
    /\ Expired(s, "claim") \/ Expired(s, "announce")
    /\ Multicast(s, "response")
    /\ LET sent == IF next[s] = "claim" THEN 1 ELSE count[s] + 1 IN
       /\ count' = [count EXCEPT ![s] = sent]
       /\ IF sent < AnnounceCount
          THEN /\ state' = [state EXCEPT ![s] = "announcing"]
               /\ Arm(s, AnnounceInterval, "announce")
          ELSE /\ state' = [state EXCEPT ![s] = "live"]
               /\ Arm(s, Off, "none")
    /\ UNCHANGED <<name, attempt, lost>>

Reprobe(s) ==
    /\ Expired(s, "reprobe")
    /\ StartProbing(s)
    /\ UNCHANGED <<name, attempt, flying, lost>>

-----------------------------------------------------------------------------
(***************************************************************************)
(* on_packet() of the receiver m.to.  A response conflicts by the name of  *)
(* any of its records, so by the host name too; a probe carries only the   *)
(* SRV record of the service name.                                         *)
(***************************************************************************)
Take(m) == m \in flying /\ flying' = flying \ {m}

ResponseConflicts(m) ==
    m.kind = "response" /\ (m.name = name[m.to] \/ Host[m.from] = Host[m.to])

ProbeConflicts(m) == m.kind = "probe" /\ m.name = name[m.to]

\* handle_conflict(name_conflict): rename and start over, or give up.
HandleConflict(m) ==
    LET s == m.to IN
    /\ Take(m)
    /\ state[s] = "probing"
    /\ ResponseConflicts(m)
    /\ \/ /\ attempt[s] < MaxRenames
          /\ attempt' = [attempt EXCEPT ![s] = @ + 1]
          /\ \E n \in Names \ {name[s]} : name' = [name EXCEPT ![s] = n]
          /\ StartProbing(s)
       \/ /\ attempt[s] = MaxRenames
          /\ state' = [state EXCEPT ![s] = "stopped"]
          /\ Arm(s, Off, "none")
          /\ UNCHANGED <<name, count, attempt>>
    /\ UNCHANGED lost

\* Mutant: both sides of a tiebreak defer.
DeferAndReprobe_Always(m) ==
    LET s == m.to IN
    /\ Take(m)
    /\ state[s] = "probing"
    /\ ProbeConflicts(m)
    /\ count' = [count EXCEPT ![s] = 0]
    /\ Arm(s, DeferDelay, "reprobe")
    /\ UNCHANGED <<state, name, attempt, lost>>

\* Mutant: the loser of a tiebreak goes on probing.
DeferAndReprobe_Continue(m) ==
    LET s == m.to IN
    /\ Take(m)
    /\ state[s] = "probing"
    /\ ProbeConflicts(m)
    /\ UNCHANGED <<state, name, count, attempt, timer, next, lost>>

\* handle_conflict(tiebreak_deferred), when our SRV data is not the greater.
DeferAndReprobe(m) ==
    LET s == m.to IN
    /\ Take(m)
    /\ state[s] = "probing"
    /\ ProbeConflicts(m)
    /\ IF Rank[s] <= Rank[m.from]
       THEN /\ count' = [count EXCEPT ![s] = 0]
            /\ Arm(s, DeferDelay, "reprobe")
       ELSE UNCHANGED <<count, timer, next>>
    /\ UNCHANGED <<state, name, attempt, lost>>

\* A live server answers the probe, a QU query for its name, by unicast.
Defend(m) ==
    /\ state[m.to] = "live"
    /\ ProbeConflicts(m)
    /\ m \in flying
    /\ flying' = (flying \ {m}) \cup {[kind |-> "response", from |-> m.to,
                                       to |-> m.from, name |-> name[m.to]]}
    /\ UNCHANGED <<state, name, count, attempt, timer, next, lost>>

\* Everything else is dropped; an announcing server drops every packet.
Ignore(m) ==
    /\ Take(m)
    /\ \/ state[m.to] \in {"idle", "announcing", "stopped"}
       \/ state[m.to] = "probing" /\ ~ResponseConflicts(m) /\ ~ProbeConflicts(m)
       \/ state[m.to] = "live" /\ ~ProbeConflicts(m)
    /\ UNCHANGED <<state, name, count, attempt, timer, next, lost>>

Lose(m) ==
    /\ lost < MaxLost
    /\ Take(m)
    /\ lost' = lost + 1
    /\ UNCHANGED <<state, name, count, attempt, timer, next>>

Receive(m) == HandleConflict(m) \/ DeferAndReprobe(m) \/ Defend(m) \/ Ignore(m)

Expire(s) == SendProbe(s) \/ SendAnnounce(s) \/ Reprobe(s)

Tick ==
    /\ flying = {}
    /\ \A s \in Servers : timer[s] # 0
    /\ \E s \in Servers : timer[s] # Off
    /\ timer' = [s \in Servers |-> IF timer[s] = Off THEN Off ELSE timer[s] - 1]
    /\ UNCHANGED <<state, name, count, attempt, next, flying, lost>>

Next ==
    \/ \E s \in Servers : Start(s) \/ Expire(s)
    \/ \E m \in flying : Receive(m) \/ Lose(m)
    \/ Tick

\* Time passes, timers expire and packets are handled; nobody need start.
Fairness == /\ WF_vars(Tick)
            /\ WF_vars(\E s \in Servers : Expire(s))
            /\ WF_vars(\E m \in flying : Receive(m))

Spec == Init /\ [][Next]_vars /\ Fairness

-----------------------------------------------------------------------------
Claimed(s) == state[s] \in {"announcing", "live"}

(***************************************************************************)
(* Types; the counters stay within the configured counts.                  *)
(***************************************************************************)
TypeOK ==
    /\ state \in [Servers -> {"idle", "probing", "announcing", "live", "stopped"}]
    /\ name \in [Servers -> Names]
    /\ \A s \in Servers :
         /\ count[s] \in 0..(IF Claimed(s) THEN AnnounceCount ELSE ProbeCount)
         /\ state[s] = "live" => count[s] = AnnounceCount
    /\ attempt \in [Servers -> 0..MaxRenames]
    /\ timer \in [Servers -> 0..Off]
    /\ next \in [Servers -> {"none", "probe", "claim", "announce", "reprobe"}]
    /\ flying \subseteq [kind : {"probe", "response"}, from : Servers,
                         to : Servers, name : Names]
    /\ lost \in 0..MaxLost

(***************************************************************************)
(* Probing detects conflicts: no two servers have claimed the same name,   *)
(* however their probes, deferrals, renames, announcements and defences    *)
(* interleave (probing.md).                                                *)
(***************************************************************************)
UniqueNames ==
    \A s, t \in Servers :
      s # t /\ Claimed(s) /\ Claimed(t) => name[s] # name[t]

\* Probing keeps names unique: no two servers that have claimed a name (the end of
\* send_probe() after the last interval) have the same one, and the counts of each
\* agree with its state.
Claims ==
    /\ TypeOK
    /\ UniqueNames

(***************************************************************************)
(* Deferring to the winner of a tiebreak never ends in waiting for each    *)
(* other: a server that started becomes live or gives up.                  *)
(***************************************************************************)
Settles ==
    \A s \in Servers : (state[s] = "probing") ~> (state[s] \in {"live", "stopped"})

=============================================================================
