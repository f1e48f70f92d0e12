------------------------------ MODULE Startup ------------------------------
(***************************************************************************)
(* How the app comes up and is kept up: main() of server/app.py binds the   *)
(* control port (47878), the telemetry port (46030) and the health port,    *)
(* which the dying previous process may still hold; a re-arm thread keeps   *)
(* after the control port; the health endpoint probes both listeners; and   *)
(* the Supervisor restarts the app after two failed polls in a row.         *)
(*                                                                         *)
(* There are no clocks.  What the model keeps of them is Spaced, below.     *)
(***************************************************************************)
EXTENDS Naturals

CONSTANTS Retries,      \* inline attempts at the control port (5)
          HttpRetries,  \* attempts at the telemetry port (6)
          Edges         \* what LG's edge may do with a connection attempt of
                        \* passthrough mode; without passthrough, {"answers"}

ASSUME StartupAssumption ==
         /\ Retries \in Nat \ {0} /\ HttpRetries \in Nat \ {0}
         /\ "answers" \in Edges
         /\ Edges \subseteq {"answers", "refuses", "silent"}

Ports   == {"control", "http", "health"}
Targets == {"control", "http"}            \* what the health endpoint probes

VARIABLES
  stage,    \* what main() is about to do
  tries,    \* failed binds of the loop main() is in
  port,     \* who has the port: free, held by a dying process, or ours
  serving,  \* the listeners whose accept loop runs
  rearm,    \* the re-arm thread of the control port
  flag,     \* _REARM_ACTIVE
  edge,     \* what LG's edge does at present
  probe,    \* where the health request that is under way is
  dead,     \* _health_probe's local of that name
  fails,    \* failed polls in a row, counted by the Supervisor
  blamed    \* history: the listeners those polls found dead

bindVars  == <<stage, tries>>
rearmVars == <<rearm, flag>>
pollVars  == <<probe, dead, fails, blamed>>
vars      == <<bindVars, port, serving, rearmVars, edge, pollVars>>

Up == stage # "exited"

TypeOK ==
  /\ stage \in {"control", "http", "health", "serve", "run", "exited"}
  /\ tries \in 0 .. Retries + HttpRetries
  /\ port \in [Ports -> {"free", "held", "ours"}]
  /\ serving \subseteq {p \in Ports : port[p] = "ours"}
  /\ rearm \in {"none", "waiting", "bound", "lowered", "done"}
  /\ flag \in BOOLEAN
  /\ edge \in Edges
  /\ probe \in {"none", "http", "control", "excuse", "verdict"}
  /\ dead \subseteq Targets /\ blamed \subseteq Ports
  /\ fails \in {0, 1}

Init ==
  /\ stage = "control" /\ tries = 0
  /\ port \in [Ports -> {"free", "held"}] /\ serving = {}
  /\ rearm = "none" /\ flag = FALSE
  /\ edge = "answers"
  /\ probe = "none" /\ dead = {} /\ fails = 0 /\ blamed = {}

Bind(p) == port[p] = "free" /\ port' = [port EXCEPT ![p] = "ours"]

\* The process ends with all its threads; its ports linger.
End(why) ==
  /\ stage' = "exited" /\ tries' = 0
  /\ port' = [p \in Ports |-> IF port[p] = "ours" THEN "held" ELSE port[p]]
  /\ serving' = {} /\ rearm' = "none" /\ flag' = FALSE
  /\ probe' = "none" /\ dead' = {} /\ fails' = 0 /\ blamed' = why

-----------------------------------------------------------------------------
(* start_control_server *)

BindControl ==
  /\ stage = "control" /\ Bind("control")
  /\ serving' = serving \cup {"control"}
  /\ stage' = "http" /\ tries' = 0
  /\ UNCHANGED <<rearmVars, edge, pollVars>>

\* Faulty variant: the re-arm thread is started and the flag is not raised.
ControlBusyUnflagged ==
  /\ stage = "control" /\ port["control"] = "held"
  /\ IF tries + 1 < Retries
       THEN tries' = tries + 1 /\ UNCHANGED <<stage, rearmVars>>
       ELSE /\ rearm' = "waiting" /\ stage' = "http" /\ tries' = 0
            /\ UNCHANGED flag
  /\ UNCHANGED <<port, serving, edge, pollVars>>

\* Faulty variant: after the last attempt main() goes on and nobody tries again.
ControlBusyGivesUp ==
  /\ stage = "control" /\ port["control"] = "held"
  /\ IF tries + 1 < Retries
       THEN tries' = tries + 1 /\ UNCHANGED stage
       ELSE stage' = "http" /\ tries' = 0
  /\ UNCHANGED <<port, serving, rearmVars, edge, pollVars>>

\* After the last inline attempt main() goes on and leaves the port to the
\* re-arm thread.
ControlBusy ==
  /\ stage = "control" /\ port["control"] = "held"
  /\ IF tries + 1 < Retries
       THEN tries' = tries + 1 /\ UNCHANGED <<stage, rearmVars>>
       ELSE /\ rearm' = "waiting" /\ flag' = TRUE
            /\ stage' = "http" /\ tries' = 0
  /\ UNCHANGED <<port, serving, edge, pollVars>>

\* Faulty variant: the re-arm thread gives up when the port is still held.
RearmBindOnce ==
  /\ rearm = "waiting"
  /\ IF port["control"] = "free"
       THEN Bind("control") /\ rearm' = "bound"
       ELSE rearm' = "done" /\ UNCHANGED port
  /\ UNCHANGED <<bindVars, serving, flag, edge, pollVars>>

\* A bind that fails changes nothing: the thread sleeps and tries again.
RearmBind ==
  /\ rearm = "waiting" /\ Bind("control")
  /\ rearm' = "bound"
  /\ UNCHANGED <<bindVars, serving, flag, edge, pollVars>>

RearmLower ==
  /\ rearm = "bound"
  /\ rearm' = "lowered" /\ flag' = FALSE
  /\ UNCHANGED <<bindVars, port, serving, edge, pollVars>>

RearmServe ==
  /\ rearm = "lowered"
  /\ rearm' = "done" /\ serving' = serving \cup {"control"}
  /\ UNCHANGED <<bindVars, port, flag, edge, pollVars>>

-----------------------------------------------------------------------------
(* main(), from the telemetry port on *)

BindHttp ==
  /\ stage = "http" /\ Bind("http")
  /\ stage' = "health" /\ tries' = 0
  /\ UNCHANGED <<serving, rearmVars, edge, pollVars>>

\* The last attempt exits loud.
HttpBusy ==
  /\ stage = "http" /\ port["http"] = "held"
  /\ IF tries + 1 < HttpRetries
       THEN /\ tries' = tries + 1
            /\ UNCHANGED <<stage, port, serving, rearmVars, pollVars>>
       ELSE End({})
  /\ UNCHANGED edge

\* One attempt at the health port; without it the app goes on.
StartHealth ==
  /\ stage = "health" /\ stage' = "serve"
  /\ IF port["health"] = "free"
       THEN Bind("health") /\ serving' = serving \cup {"health"}
       ELSE UNCHANGED <<port, serving>>
  /\ UNCHANGED <<tries, rearmVars, edge, pollVars>>

Serve ==
  /\ stage = "serve" /\ stage' = "run"
  /\ serving' = serving \cup {"http"}
  /\ UNCHANGED <<tries, port, rearmVars, edge, pollVars>>

-----------------------------------------------------------------------------
(* The health endpoint and the Supervisor that polls it *)

\* Polls are 120 s apart: between two of them the app has finished what takes
\* it no time but a thread switch or, at its start, a few seconds of retries.
Spaced == fails = 1 => stage = "run" /\ rearm \notin {"bound", "lowered"}

\* Two failed polls in a row restart the app.
Failed(found) ==
  IF fails = 0
    THEN /\ fails' = 1 /\ blamed' = found /\ probe' = "none" /\ dead' = {}
         /\ UNCHANGED <<bindVars, port, serving, rearmVars>>
    ELSE End(blamed \cup found)

Poll ==
  /\ Up /\ probe = "none" /\ Spaced
  /\ IF "health" \in serving
       THEN probe' = "http"
            /\ UNCHANGED <<bindVars, port, serving, rearmVars, dead, fails, blamed>>
       ELSE Failed({"health"})
  /\ UNCHANGED edge

\* _tls_connectable: the accept loop takes the connection and the handshake ends
\* within 2 s.  The control handler of passthrough mode first waits up to 10 s
\* for its own connection to LG's edge.
Connectable(p) ==
  /\ p \in serving
  /\ p = "control" => edge # "silent"

ProbeHttp ==
  /\ probe = "http" /\ probe' = "control"
  /\ dead' = IF Connectable("http") THEN dead ELSE dead \cup {"http"}
  /\ UNCHANGED <<bindVars, port, serving, rearmVars, edge, fails, blamed>>

ProbeControl ==
  /\ probe = "control"
  /\ probe' = IF Connectable("control") THEN "verdict" ELSE "excuse"
  /\ UNCHANGED <<bindVars, port, serving, rearmVars, edge, dead, fails, blamed>>

\* A dead control port is excused while the re-arm thread is at it.
Excuse ==
  /\ probe = "excuse" /\ probe' = "verdict"
  /\ dead' = IF flag THEN dead ELSE dead \cup {"control"}
  /\ UNCHANGED <<bindVars, port, serving, rearmVars, edge, fails, blamed>>

Verdict ==
  /\ probe = "verdict"
  /\ IF dead = {}
       THEN /\ probe' = "none" /\ fails' = 0 /\ blamed' = {}
            /\ UNCHANGED <<bindVars, port, serving, rearmVars, dead>>
       ELSE Failed(dead)
  /\ UNCHANGED edge

-----------------------------------------------------------------------------
(* The environment: the container is started again when it has ended, the      *)
(* previous process lets go of a port, LG's edge changes.                      *)

Restart ==
  /\ stage = "exited" /\ stage' = "control"
  /\ blamed' = {}
  /\ UNCHANGED <<tries, port, serving, rearmVars, edge, probe, dead, fails>>

Release(p) ==
  /\ port[p] = "held" /\ port' = [port EXCEPT ![p] = "free"]
  /\ UNCHANGED <<bindVars, serving, rearmVars, edge, pollVars>>

EdgeChanges ==
  /\ edge' \in Edges \ {edge}
  /\ UNCHANGED <<bindVars, port, serving, rearmVars, pollVars>>

Main       == \/ BindControl \/ ControlBusy \/ BindHttp \/ HttpBusy
              \/ StartHealth \/ Serve
Rearm      == RearmBind \/ RearmLower \/ RearmServe
HealthPoll == Poll \/ ProbeHttp \/ ProbeControl \/ Excuse \/ Verdict

Next == \/ Main \/ Rearm \/ HealthPoll \/ Restart \/ EdgeChanges
        \/ \E p \in Ports : Release(p)

Spec == Init /\ [][Next]_vars

\* The threads run, a dying process lets its ports go in the end, and the
\* container is started again.  Nothing makes the Supervisor poll.
FairSpec == /\ Spec /\ WF_vars(Main) /\ WF_vars(Rearm) /\ WF_vars(Restart)
            /\ \A p \in Ports : WF_vars(Release(p))

-----------------------------------------------------------------------------
(* Properties. *)

\* Once main() is past the control port, it is served or the re-arm thread is at
\* it: the channel cannot be left dead until a human restarts the app.
ChannelTended ==
  stage \in {"http", "health", "serve", "run"} =>
    "control" \in serving \/ rearm \in {"waiting", "bound", "lowered"}

\* The Supervisor never restarts the app for its control port alone: neither
\* while the re-arm thread recovers it nor for the moment in which it has done so.
\* A restart would put the app back into the same held port.  In passthrough mode
\* this needs an edge that answers or refuses, and is not silent.
NoChurn == ~(stage = "exited" /\ blamed = {"control"})

\* Past the control port, the channel comes to be served, or the process ends.
ChannelReturns == stage = "http" ~> "control" \in serving \/ stage = "exited"
=============================================================================
