---------------------------- MODULE PrivateOutput ----------------------------
(***************************************************************************)
(* Where a received payload goes: the plan and its execution in            *)
(* crates/cli/src/commands/receive.rs and the private atomic write of      *)
(* crates/core/src/local/output.rs, next to another program that edits the *)
(* same files, with the command killed or the power lost at any step.      *)
(*                                                                         *)
(* A content is the set of parts it has; "recv" is the payload.  A rename  *)
(* or a write that was not synced may or may not survive a power loss, and *)
(* the content of an unsynced file may then be torn.                       *)
(***************************************************************************)
EXTENDS Naturals, FiniteSets

CONSTANTS
  Paths,         \* the destinations a user may name
  Edits,         \* the parts the other program may add
  MaxPrompts     \* bound on "save elsewhere"

Entry(kind, parts, private) ==
  [kind |-> kind, parts |-> parts, whole |-> TRUE, private |-> private]
Missing == Entry("missing", {}, FALSE)
Dangling == Entry("dangling", {}, FALSE)      \* a symlink to nothing
Link == Entry("link", {}, FALSE)              \* a symlink to a file
Directory == Entry("directory", {}, FALSE)

VARIABLES
  args,        \* mode ("none" if not given), interactive, durable
  phase,       \* where the command is
  destination,
  action,      \* OutputAction
  contents,    \* what is to be written
  temporary,   \* the temporary file
  synced,      \* sync_all was called on it
  fs,          \* path -> what is there
  stable,      \* path -> what may be there after a power loss
  unused,      \* edits the other program has still to make
  early,       \* destination parts that were there when persisting began
  prompts

command == <<args, destination, action, contents, temporary, synced, early>>
files == <<fs, stable>>
vars == <<command, phase, files, unused, prompts>>

Init ==
  /\ args \in [mode : {"none", "create", "replace", "merge"},
               interactive : BOOLEAN, durable : BOOLEAN]
  /\ phase = "plan"
  /\ destination \in Paths /\ action = "none"
  /\ contents = {} /\ temporary = Missing /\ synced = FALSE /\ early = {}
  /\ fs \in [Paths -> {Missing, Dangling, Link, Directory,
                       Entry("file", {"old"}, FALSE)}]
  /\ stable = [p \in Paths |-> {fs[p]}]
  /\ unused = Edits /\ prompts = MaxPrompts

Exists(p) == fs[p].kind \notin {"missing", "dangling"}   \* try_exists
Fails == phase' = "failed" /\ temporary' = Missing       \* drops the temporary
-----------------------------------------------------------------------------
\* resolve_destination: one turn of its loop.
Decide(a) == action' = a /\ phase' = "transfer"

resolve_destination ==
  /\ phase = "plan"
  /\ \/ /\ ~Exists(destination)
        /\ Decide("create")
        /\ UNCHANGED <<destination, prompts>>
     \/ /\ \/ Exists(destination) /\ fs[destination].kind # "file"
           \/ Exists(destination) /\ args.mode = "create"
           \/ Exists(destination) /\ args.mode = "none"   \* asked, or cancelled
        /\ phase' = "failed"
        /\ UNCHANGED <<action, destination, prompts>>
     \/ /\ fs[destination].kind = "file"
        /\ \E a \in {"replace", "merge"} :
             /\ args.mode = a \/ (args.mode = "none" /\ args.interactive)
             /\ Decide(a)
        /\ UNCHANGED <<destination, prompts>>
     \/ /\ fs[destination].kind = "file"
        /\ args.mode = "none" /\ args.interactive
        /\ prompts > 0 /\ prompts' = prompts - 1
        /\ destination' \in Paths      \* "save elsewhere", and round again
        /\ UNCHANGED <<action, phase>>
  /\ UNCHANGED <<args, contents, temporary, synced, early, files, unused>>

\* receive_direct_with_code: takes a while, and may fail.
Transfer ==
  /\ phase = "transfer"
  /\ phase' \in {"persist", "failed"}
  /\ UNCHANGED <<command, files, unused, prompts>>

Merged_planned == {"old", "recv"}
Merged == fs[destination].parts \cup {"recv"}

\* persist_received: a merge reads the destination as it is now.
persist_received ==
  /\ phase = "persist"
  /\ early' = fs[destination].parts
  /\ \/ /\ action # "merge"
        /\ contents' = {"recv"}
        /\ phase' = "validate"
     \/ /\ action = "merge" /\ fs[destination].kind \in {"file", "link"}
        /\ contents' = Merged
        /\ phase' = "validate"
     \/ /\ action = "merge"   \* unreadable, too large or not a dotenv file
        /\ phase' = "failed"
        /\ UNCHANGED contents
  /\ UNCHANGED <<args, destination, action, temporary, synced, files, unused,
                 prompts>>

Replace == action # "create"

\* The parent is resolved, and validate_destination looks at the file.
validate_destination ==
  /\ phase = "validate"
  /\ \/ /\ \/ fs[destination].kind = "missing"
           \/ Replace /\ fs[destination].kind = "file"
        /\ phase' = "create"
     \/ phase' = "failed"
  /\ UNCHANGED <<command, files, unused, prompts>>

\* The temporary file is created, made private and written, or one of these
\* fails.
CreateTemporary ==
  /\ phase = "create"
  /\ \/ /\ \E private \in BOOLEAN : temporary' = Entry("file", {}, private)
        /\ phase' = "private"
     \/ Fails
  /\ UNCHANGED <<args, destination, action, contents, synced, early, files,
                 unused, prompts>>

make_private ==
  /\ phase = "private"
  /\ \/ temporary' = [temporary EXCEPT !.private = TRUE] /\ phase' = "write"
     \/ Fails
  /\ UNCHANGED <<args, destination, action, contents, synced, early, files,
                 unused, prompts>>

AfterFlush_unsynced == "rename"
AfterFlush == IF args.durable THEN "sync" ELSE "rename"

WriteAll ==
  /\ phase = "write"
  /\ \/ /\ temporary' = [temporary EXCEPT !.parts = contents, !.whole = FALSE]
        /\ phase' = "flush"
     \/ Fails
  /\ UNCHANGED <<args, destination, action, contents, synced, early, files,
                 unused, prompts>>

Flush ==
  /\ phase = "flush"
  /\ \/ /\ temporary' = [temporary EXCEPT !.whole = TRUE]
        /\ phase' = AfterFlush
     \/ Fails
  /\ UNCHANGED <<args, destination, action, contents, synced, early, files,
                 unused, prompts>>

SyncAll ==
  /\ phase = "sync"
  /\ \/ synced' = TRUE /\ phase' = "rename" /\ UNCHANGED temporary
     \/ Fails /\ UNCHANGED synced
  /\ UNCHANGED <<args, destination, action, contents, early, files, unused,
                 prompts>>

\* What a power loss may leave of the temporary file once it is in place.
Survivors == {temporary} \cup
  IF synced THEN {} ELSE {[temporary EXCEPT !.whole = FALSE]}

\* persist refuses a directory; persist_noclobber refuses whatever is there.
MayRename ==
  /\ fs[destination].kind # "directory"
  /\ Replace \/ fs[destination].kind = "missing"

\* persist or persist_noclobber: one atomic rename.
Persist ==
  /\ phase = "rename"
  /\ \/ /\ MayRename
        /\ fs' = [fs EXCEPT ![destination] = temporary]
        /\ stable' = [stable EXCEPT ![destination] = @ \cup Survivors]
        /\ temporary' = Missing
        /\ phase' = IF args.durable THEN "sync_parent" ELSE "acknowledge"
     \/ Fails /\ UNCHANGED files
  /\ UNCHANGED <<args, destination, action, contents, synced, early, unused,
                 prompts>>

\* sync_parent makes the rename durable.
sync_parent ==
  /\ phase = "sync_parent"
  /\ \/ /\ phase' = "acknowledge"
        /\ stable' = [stable EXCEPT ![destination] =
                        @ \cap {fs[destination],
                                [fs[destination] EXCEPT !.whole = synced]}]
     \/ phase' = "failed" /\ UNCHANGED stable
  /\ UNCHANGED <<command, fs, unused, prompts>>

\* acknowledge, whose confirmation may not arrive.
Acknowledge ==
  /\ phase = "acknowledge"
  /\ phase' \in {"done", "failed"}
  /\ UNCHANGED <<command, files, unused, prompts>>
-----------------------------------------------------------------------------
\* External: the other program saves, creates, deletes or links a file, with
\* everything it does on disk at once.
Edit ==
  /\ phase \notin {"done", "failed", "killed", "off"}
  /\ \E p \in Paths, e \in unused :
       /\ unused' = unused \ {e}
       /\ \/ /\ fs[p].kind \in {"file", "missing"}
             /\ fs' = [fs EXCEPT ![p] =
                         Entry("file", @.parts \cup {e}, @.private)]
          \/ /\ fs[p].kind # "missing"
             /\ fs' = [fs EXCEPT ![p] = Missing]
          \/ /\ fs[p].kind = "missing"
             /\ fs' = [fs EXCEPT ![p] = Link]
       /\ stable' = [stable EXCEPT ![p] = {fs'[p]}]
  /\ UNCHANGED <<command, phase, prompts>>

\* External: the command is killed; what is on disk stays as it is.
Kill ==
  /\ phase \notin {"done", "failed", "killed", "off"}
  /\ phase' = "killed"
  /\ UNCHANGED <<command, files, unused, prompts>>

\* External: the power is lost.
PowerLoss ==
  /\ phase # "off"
  /\ phase' = "off"
  /\ fs' \in [Paths -> UNION {stable[p] : p \in Paths}]
  /\ \A p \in Paths : fs'[p] \in stable[p]
  /\ stable' = [p \in Paths |-> {fs'[p]}]
  /\ UNCHANGED <<command, unused, prompts>>

Next ==
  \/ resolve_destination \/ Transfer \/ persist_received \/ validate_destination
  \/ CreateTemporary \/ make_private \/ WriteAll \/ Flush \/ SyncAll
  \/ Persist \/ sync_parent \/ Acknowledge
  \/ Edit \/ Kill \/ PowerLoss

Spec == Init /\ [][Next]_vars
-----------------------------------------------------------------------------
\* No reader finds half a file at a destination, whatever step the command is
\* killed at; with --durable not even a power loss leaves one, and the sender
\* is told of success only when a power loss can no longer undo it
\* (write_private_atomic, sync_parent, acknowledge).
OutputSurvivesCrashes ==
  /\ phase # "off" \/ args.durable =>
       \A p \in Paths : fs[p].kind = "file" => fs[p].whole
  /\ args.durable /\ phase \in {"acknowledge", "done"} =>
       stable[destination] = {fs[destination]}

\* What another program saved while the transfer went on is kept: a plan to
\* create never replaces it, and a merge reads the destination after the
\* transfer.  Only an edit between that read and the rename can be lost.
EditIsKept ==
  unused' = unused /\ phase' # "off" =>
    /\ \A p \in Paths : fs'[p] # fs[p] =>
         p = destination /\ (action = "create" => fs[p] = Missing)
    /\ action = "merge" /\ phase = "rename" =>
         early \cap fs[destination].parts \subseteq fs'[destination].parts
=============================================================================
