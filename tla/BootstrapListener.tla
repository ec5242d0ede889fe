-------------------------- MODULE BootstrapListener --------------------------
(***************************************************************************)
(* The temporary first-run listener (internal/bootstrap), the environment  *)
(* file that names its address, the marker file beside the SQLite file,    *)
(* and the start of the process that opens the port.                       *)
(***************************************************************************)

CONSTANT FirstEnv   \* what the environment file may be at first

ASSUME BootAssumption == FirstEnv \subseteq {"open", "closed", "missing"}

VARIABLES env,      \* the environment file: see BootTypeOK
          marker,   \* bootstrap.closed exists
          port,     \* the port accepts connections
          closing,  \* a graceful Shutdown was scheduled
          promised  \* history: closing was reported with the environment file
                    \* rewritten, or the marker was written

bootVars == <<env, marker, port, closing, promised>>

(* "open" names an address, "closed" names none, "torn" was truncated and  *)
(* not rewritten; with a "missing" file, in development, the address comes *)
(* from the process's own environment.                                     *)
BootTypeOK ==
    /\ env \in {"open", "torn", "closed", "missing"}
    /\ marker \in BOOLEAN /\ port \in BOOLEAN
    /\ closing \in BOOLEAN /\ promised \in BOOLEAN

(* Mutant: the marker is not looked at.                                    *)
StartAnyway(e, m) == e \in {"open", "missing"}

(* main opens the port when an address is configured and no marker exists. *)
Start(e, m) == e \in {"open", "missing"} /\ ~m

BootInit ==
    /\ env \in FirstEnv /\ marker = FALSE
    /\ port = Start(env, marker)
    /\ closing = FALSE /\ promised = FALSE

(* The timer writes the marker, ignores a failure to do so, and closes.    *)
Expire ==
    /\ port
    /\ port' = FALSE
    /\ \E written \in BOOLEAN :
          /\ marker' = (marker \/ written)
          /\ promised' = (promised \/ marker')
    /\ UNCHANGED <<env, closing>>

(* The goroutine that confirm started; finishClose runs once.              *)
Shutdown ==
    /\ closing
    /\ port' = FALSE /\ closing' = FALSE
    /\ UNCHANGED <<env, marker, promised>>

(* A stop or a crash of the process writes no marker; the next start looks *)
(* at the files.                                                           *)
Reopen ==
    /\ port' = Start(env, marker)
    /\ closing' = FALSE
    /\ UNCHANGED <<env, marker, promised>>

(* Once the owner was told that the bootstrap port is closed and the       *)
(* environment file says so, or the marker was written, no restart opens   *)
(* the port again: a closed port stays closed.  In development the file    *)
(* may be missing; then the marker alone keeps the port closed.            *)
BootstrapStaysClosed ==
    [][promised /\ ~port => ~port']_bootVars
=============================================================================
