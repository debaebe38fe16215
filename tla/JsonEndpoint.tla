---------------------------- MODULE JsonEndpoint ----------------------------
(***************************************************************************)
(* Where the JSON wire meets: the muscle (json_ipc_endpoint of             *)
(* execution/src/wire.rs) and the broadcaster (default_json_ipc_endpoint   *)
(* of strategy/signal_broadcaster.jl) each work out the endpoint from      *)
(* their environment and prepare the default directory, in two languages   *)
(* and in any order.  Both are started in the same environment by the same *)
(* user; nobody else changes the file system.                              *)
(*                                                                         *)
(* A LIMEN_JSON_IPC value is what the validators ask of it: whitespace     *)
(* around it, and the shape of the rest.  It is Unicode.                   *)
(***************************************************************************)
EXTENDS Naturals

CONSTANTS Refused, \* an error is returned or thrown
          Unset,   \* the variable is not in the environment, or no result yet
          XdgDir,  \* limen-capital under XDG_RUNTIME_DIR
          TmpDir   \* limen-capital-$UID under /tmp

Texts == {"", "noScheme", "relative", "relativeDotDot", "dotDot", "absolute"}
Values == [padded : BOOLEAN, text : Texts]
Overrides == {Unset} \cup Values
Dirs == {XdgDir, TmpDir}
Leaves == [kind : {"directory"}, mine : BOOLEAN, private : BOOLEAN]
            \cup [kind : {"absent", "symlink", "file"}, mine : {TRUE}, private : {FALSE}]
Sides == {"rust", "julia"}

ASSUME EndpointAssumption ==
  /\ Refused # Unset /\ XdgDir # TmpDir
  /\ {Refused, Unset} \cap Dirs = {}
  /\ ({Refused, Unset} \cup Dirs) \cap Values = {}

VARIABLES override, \* LIMEN_JSON_IPC
          xdg,      \* XDG_RUNTIME_DIR is "unset", "empty" or "set"
          leaf,     \* what is at the default directory under XDG and under /tmp
          step,     \* the step each side is about to take
          result    \* the endpoint each side came to

endpointVars == <<override, xdg, leaf, step, result>>
environment == <<override, xdg>>

EndpointInit ==
  /\ override \in Overrides
  /\ xdg \in {"unset", "empty", "set"}
  /\ leaf \in [Dirs -> Leaves]
  /\ step = [s \in Sides |-> "resolve"]
  /\ result = [s \in Sides |-> Unset]

-----------------------------------------------------------------------------
HasScheme(text) == text \in {"relative", "relativeDotDot", "dotDot", "absolute"}
Absolute(text) == text \in {"dotDot", "absolute"}
DotDot(text) == text \in {"dotDot", "relativeDotDot"}
Trim(value) == [value EXCEPT !.padded = FALSE]

\* validate_json_ipc_endpoint in Rust ...
RustValidate(value) ==
  LET ep == Trim(value)
  IN IF ep.text # "" /\ HasScheme(ep.text) /\ Absolute(ep.text) /\ ~DotDot(ep.text)
       THEN ep ELSE Refused

\* Mutated JuliaValidate: the value is returned as it was given.
JuliaValidateUntrimmed(value) ==
  IF HasScheme(value.text) /\ Absolute(value.text) /\ ~DotDot(value.text) THEN value ELSE Refused

\* ... and in Julia.
JuliaValidate(value) ==
  LET ep == Trim(value)
  IN IF ep.text = "" \/ ~HasScheme(ep.text) \/ ~Absolute(ep.text) \/ DotDot(ep.text)
       THEN Refused ELSE ep

\* An empty override or XDG_RUNTIME_DIR counts as unset.
Overridden == override # Unset /\ override # [padded |-> FALSE, text |-> ""]
DefaultDir == IF xdg = "set" THEN XdgDir ELSE TmpDir

At(s, from) == step[s] = from
Go(s, to) == step' = [step EXCEPT ![s] = to]
Finish(s, endpoint) == Go(s, "done") /\ result' = [result EXCEPT ![s] = endpoint]

\* A valid override is the endpoint; the default one needs its directory.
Resolve(s) ==
  /\ At(s, "resolve")
  /\ IF Overridden
       THEN Finish(s, IF s = "rust" THEN RustValidate(override) ELSE JuliaValidate(override))
       ELSE Go(s, "checkLink") /\ UNCHANGED result
  /\ UNCHANGED <<environment, leaf>>

\* prepare_json_ipc_dir: not through a symlink ...
CheckLink(s) ==
  /\ At(s, "checkLink")
  /\ IF leaf[DefaultDir].kind = "symlink" THEN Finish(s, Refused)
                                          ELSE Go(s, "create") /\ UNCHANGED result
  /\ UNCHANGED <<environment, leaf>>

\* Mutated Create: the default tree under /tmp is always made as well.
CreateBoth(s) ==
  /\ At(s, "create")
  /\ leaf[DefaultDir].kind # "file"
  /\ leaf' = [d \in Dirs |->
       IF leaf[d].kind = "absent" THEN [kind |-> "directory", mine |-> TRUE, private |-> FALSE]
       ELSE leaf[d]]
  /\ Go(s, "checkOwner")
  /\ UNCHANGED <<environment, result>>

\* ... create_dir_all, mkpath: made if absent, with the umask's mode ...
Create(s) ==
  /\ At(s, "create")
  /\ leaf[DefaultDir].kind # "file"
  /\ leaf' = IF leaf[DefaultDir].kind = "absent"
               THEN [leaf EXCEPT ![DefaultDir] =
                       [kind |-> "directory", mine |-> TRUE, private |-> FALSE]]
               ELSE leaf
  /\ Go(s, "checkOwner")
  /\ UNCHANGED <<environment, result>>

\* ... or not, where a file is in the way or the parent cannot be written ...
CreateFails(s) ==
  /\ At(s, "create")
  /\ leaf[DefaultDir].kind \in {"file", "absent"}
  /\ Finish(s, Refused)
  /\ UNCHANGED <<environment, leaf>>

\* ... a directory of this user's ...
CheckOwner(s) ==
  /\ At(s, "checkOwner")
  /\ IF leaf[DefaultDir].kind = "directory" /\ leaf[DefaultDir].mine
       THEN Go(s, "chmod") /\ UNCHANGED result
       ELSE Finish(s, Refused)
  /\ UNCHANGED <<environment, leaf>>

\* ... that nobody else may enter.
Chmod(s) == /\ At(s, "chmod")
            /\ leaf' = [leaf EXCEPT ![DefaultDir].private = TRUE]
            /\ Finish(s, DefaultDir)
            /\ UNCHANGED environment

EndpointNext ==
  \E s \in Sides : \/ Resolve(s) \/ CheckLink(s) \/ Create(s) \/ CreateFails(s)
                  \/ CheckOwner(s) \/ Chmod(s)

EndpointSpec == EndpointInit /\ [][EndpointNext]_endpointVars

-----------------------------------------------------------------------------
\* The muscle and the broadcaster never come to different endpoints, whichever
\* is first to find, make or secure the directory; a value only one of two
\* validators takes would leave them apart without an error.
EndpointsAgree ==
  /\ \A s, t \in Sides :
       result[s] \notin {Unset, Refused} /\ result[t] \notin {Unset, Refused} => result[s] = result[t]
  /\ Overridden /\ (\A s \in Sides : step[s] = "done") => result["rust"] = result["julia"]

\* A default endpoint is only ever handed out in a directory of this user's
\* with mode 0700, and the other side's steps never take that away again.
DefaultIsPrivate ==
  \A s \in Sides, d \in Dirs :
    result[s] = d => leaf[d] = [kind |-> "directory", mine |-> TRUE, private |-> TRUE]

\* The two sides meet: at one endpoint, and a default one is out of reach of
\* other users by the time either side has it (wire.rs:54-130,
\* signal_broadcaster.jl:26-90).
SidesMeet == EndpointsAgree /\ DefaultIsPrivate

\* What a step may do to a directory.
OnlyOwnDefaultTouched ==
  \A d \in Dirs : leaf'[d] # leaf[d] => /\ ~Overridden
                                       /\ d = DefaultDir
                                       /\ leaf[d].kind \in {"absent", "directory"}
                                       /\ leaf[d].mine

\* signal_broadcaster.jl:81 and wire.rs:51: an override makes no default tree,
\* a default only its own directory, and no directory of another user's changes.
NothingElseTouched == [][OnlyOwnDefaultTouched]_endpointVars
=============================================================================
