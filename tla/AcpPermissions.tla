----------------------------- MODULE AcpPermissions -----------------------------
(***************************************************************************)
(* The answers of the ACP permission handler (driver/acp/permissions.go).  *)
(* It is asked while a turn runs, has no state but the configured posture, *)
(* and never asks anybody.  Paths are told apart by where they resolve to. *)
(***************************************************************************)
EXTENDS Naturals, SequencesExt

CONSTANT MaxOptions      \* bound: options offered in one request

ASSUME MaxOptionsAssumption == MaxOptions \in Nat

ToolKinds == {"read", "search", "edit", "delete", "move", "execute", "other"}
OptionKinds == {"allow_once", "allow_always", "reject_once", "reject_always"}
(* Unclear: relative, not clean, or not to be resolved. *)
Paths == {"inside", "outside", "unclear"}

ToolCall == [kind : ToolKinds \cup {"absent"}, locations : SUBSET Paths, diffs : SUBSET Paths,
             terminal : BOOLEAN]
Option == [kind : OptionKinds, named : BOOLEAN]
Options == UNION {[1..n -> Option] : n \in 0..MaxOptions}

IsMutation(kind) == kind \in {"edit", "delete", "move"}

HasConflictingContent(tool) ==
  \/ tool.diffs # {} /\ tool.terminal
  \/ tool.diffs # {} /\ tool.kind # "absent" /\ ~IsMutation(tool.kind)
  \/ tool.terminal /\ tool.kind \notin {"absent", "execute"}

AllPathsWithinWorkspace(tool) == tool.locations \cup tool.diffs = {"inside"}

ReadOnlyToolAllowed(kind) == kind \in {"read", "search"}
WorkspaceToolAllowed(kind) == ReadOnlyToolAllowed(kind) \/ IsMutation(kind) \/ kind = "execute"

Allows(posture, tool) ==
  /\ tool.kind # "absent" /\ ~HasConflictingContent(tool)
  /\ \/ posture = "readOnly" /\ ReadOnlyToolAllowed(tool.kind)
     \/ posture = "workspaceWrite" /\ WorkspaceToolAllowed(tool.kind)
        /\ AllPathsWithinWorkspace(tool)

Offers(options, kind) == \E i \in 1..Len(options) : options[i] = [kind |-> kind, named |-> TRUE]

(* selectPermissionOption: an allowed request that is not offered "once" is rejected. *)
Preferred(allow) ==
  IF allow THEN <<"allow_once", "reject_once", "reject_always">>
           ELSE <<"reject_once", "reject_always">>
SelectOption(options, allow) ==
  LET first == SelectInSeq(Preferred(allow), LAMBDA kind : Offers(options, kind))
  IN IF first = 0 THEN "denied" ELSE Preferred(allow)[first]

RequestPermission(posture, tool, options) == SelectOption(options, Allows(posture, tool))

-----------------------------------------------------------------------------
Granted(posture, tool) ==
  {RequestPermission(posture, tool, options) : options \in Options}
    \cap {"allow_once", "allow_always"}
    # {}

(* A read-only session is granted nothing that carries a change or a command,
   whatever the call says it is. *)
ReadOnlyChangesNothing == \A tool \in ToolCall : Granted("readOnly", tool) =>
  tool.kind \in {"read", "search"} /\ tool.diffs = {} /\ ~tool.terminal

(* A writing session is granted nothing that touches a path outside its
   workspace, or that names none, and no command under another name. *)
WritesInside == \A tool \in ToolCall : Granted("workspaceWrite", tool) =>
  /\ tool.locations \cup tool.diffs # {}
  /\ {"outside", "unclear"} \cap (tool.locations \cup tool.diffs) = {}
  /\ tool.terminal => tool.kind = "execute"

(* Nothing is granted for good, and nothing under a posture that is neither. *)
GrantsOnce ==
  /\ \A posture \in {"readOnly", "workspaceWrite", "invalid"}, tool \in ToolCall, o \in Options :
       RequestPermission(posture, tool, o) # "allow_always"
  /\ \A tool \in ToolCall : ~Granted("invalid", tool)

(* A request that names only paths of the workspace is granted to a writing
   session whenever it is granted to a read-only one. *)
WriteCoversRead == \A tool \in ToolCall :
  Granted("readOnly", tool) /\ AllPathsWithinWorkspace(tool) => Granted("workspaceWrite", tool)

(* What a session may do is what its posture says (RequestPermission, allows). *)
PermissionsFollowPosture ==
  ReadOnlyChangesNothing /\ WritesInside /\ GrantsOnce /\ WriteCoversRead
=============================================================================
