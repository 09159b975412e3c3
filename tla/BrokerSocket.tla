------------------------------ MODULE BrokerSocket ------------------------------
(****************************************************************************)
(* The life of credential-broker processes over one socket path:            *)
(* broker/runtime.rs.  Each system call on the path is a step of its own,   *)
(* since another broker that starts or ends may act in between.  A          *)
(* member of Brokers is one run of the program; the file at the path is     *)
(* named by the broker that bound it.                                       *)
(****************************************************************************)
CONSTANTS Brokers, NoFile

VARIABLES
    path,       \* whose socket file is at the path, or NoFile
    stage,      \* where each broker is in run_unix
    identity,   \* owned_socket_identity: whose file the broker found at the path
    near        \* history: the brokers alive at some moment of the broker's start

Starting == {"found", "stale", "clear", "bound", "listening"}
Serving == {"running", "stopping", "removing"}
Over == {"refused", "ended", "crashed"}

\* The listener is open from listen(2) until run_unix returns.
Listens(b) == stage[b] \in {"listening"} \cup Serving
Alive(b) == stage[b] \in Starting \cup Serving

Init ==
    /\ path = NoFile
    /\ stage = [b \in Brokers |-> "off"]
    /\ identity = [b \in Brokers |-> NoFile]
    /\ near = [b \in Brokers |-> {}]

To(b, s) == stage' = [stage EXCEPT ![b] = s]

\* prepare_socket_path begins: is there anything at the path?  The history
\* variable pairs the new broker with those alive, and those still starting
\* with the new one.
Look(b) ==
    /\ stage[b] = "off"
    /\ To(b, IF path = NoFile THEN "clear" ELSE "found")
    /\ near' = [c \in Brokers |->
          IF c = b THEN {a \in Brokers : Alive(a)}
          ELSE IF stage[c] \in Starting THEN near[c] \cup {b} ELSE near[c]]
    /\ UNCHANGED <<path, identity>>

\* Mutant: whatever is at the path counts as stale.
AnsweredNever(b) == FALSE

\* The connection attempt is answered by a broker that listens.
Answered(b) == path # NoFile /\ Listens(path)

\* symlink_metadata and connect.  A file that vanished meanwhile is an error.
Probe(b) ==
    /\ stage[b] = "found"
    /\ To(b, IF path = NoFile \/ Answered(b) THEN "refused" ELSE "stale")
    /\ UNCHANGED <<path, identity, near>>

\* remove_file acts on the path, whoever is behind it by now.
Unlink(b) ==
    /\ stage[b] = "stale"
    /\ IF path = NoFile THEN To(b, "refused") ELSE To(b, "clear")
    /\ path' = NoFile
    /\ UNCHANGED <<identity, near>>

\* UnixListener::bind is bind(2) and then listen(2).
Bind(b) ==
    /\ stage[b] = "clear"
    /\ IF path = NoFile THEN To(b, "bound") /\ path' = b
                        ELSE To(b, "refused") /\ UNCHANGED path
    /\ UNCHANGED <<identity, near>>

Listen(b) ==
    /\ stage[b] = "bound"
    /\ To(b, "listening")
    /\ UNCHANGED <<path, identity, near>>

\* restrict_socket_permissions, socket_identity: they too act on the path.
Claim(b) ==
    /\ stage[b] = "listening"
    /\ IF path = NoFile THEN To(b, "refused") ELSE To(b, "running")
    /\ identity' = [identity EXCEPT ![b] = path]
    /\ UNCHANGED <<path, near>>

\* SIGINT, SIGTERM or an accept error ends the loop.
Stop(b) ==
    /\ stage[b] = "running"
    /\ To(b, "stopping")
    /\ UNCHANGED <<path, identity, near>>

\* socket_identity(path) == owned_socket_identity
StillOwn(b) == path # NoFile /\ path = identity[b]

Compare(b) ==
    /\ stage[b] = "stopping"
    /\ To(b, IF StillOwn(b) THEN "removing" ELSE "ended")
    /\ UNCHANGED <<path, identity, near>>

Remove(b) ==
    /\ stage[b] = "removing"
    /\ To(b, "ended")
    /\ path' = NoFile
    /\ UNCHANGED <<identity, near>>

\* A kill at any moment; a failed thread spawn, which returns past the removal.
Crash(b) ==
    /\ Alive(b)
    /\ To(b, "crashed")
    /\ UNCHANGED <<path, identity, near>>

\* What a broker does by itself once started.
StartStep(b) == Probe(b) \/ Unlink(b) \/ Bind(b) \/ Listen(b) \/ Claim(b)
EndStep(b) == Compare(b) \/ Remove(b)

SocketNext ==
    \E b \in Brokers : Look(b) \/ StartStep(b) \/ Stop(b) \/ EndStep(b) \/ Crash(b)

------------------------------------------------------------------------------
SocketTypeOK ==
    /\ path \in Brokers \cup {NoFile}
    /\ stage \in [Brokers -> {"off"} \cup Starting \cup Serving \cup Over]
    /\ identity \in [Brokers -> Brokers \cup {NoFile}]
    /\ near \in [Brokers -> SUBSET Brokers]

\* "An active broker is never overwritten" (local-workflows.md:161), as far as the
\* code keeps it: a broker that started while no other was alive is not refused,
\* whatever socket a crash left behind, keeps its socket as long as it serves, however
\* many others try to start, and takes it away when it ends.  Two that start
\* together over one stale socket may take each other's.
AloneKeepsSocket ==
    \A b \in Brokers :
        near[b] = {} =>
            /\ stage[b] # "refused"
            /\ stage[b] \in Serving => path = b
            /\ stage[b] = "ended" => path # b
================================================================================
