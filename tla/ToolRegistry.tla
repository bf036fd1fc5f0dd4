---------------------------- MODULE ToolRegistry ----------------------------
(***************************************************************************)
(* The MCP tools (server.rs) over one backend and one bridge.  A tool call  *)
(* waits for the tokio mutex around the backend (first come, first served), *)
(* validates, publishes one request and holds the mutex until its answer,   *)
(* its doubt or the drop of its future.  What a tool announces to the MCP    *)
(* client (read_only_hint) is written in Rust; whether a failure is definite *)
(* is decided in Java by isMutation; whether a handler writes is decided by   *)
(* the handlers.  The three lists are kept by hand.                           *)
(***************************************************************************)
EXTENDS Sequences, SequencesExt

CONSTANT Callers  \* concurrent tool calls of one MCP client

ASSUME CallersAssumption == "nobody" \notin Callers

-----------------------------------------------------------------------------
(* server.rs: the tools in the order of the source, by their annotations.   *)

Reading(names)  == [op : names, readOnly : {TRUE}]
Changing(names) == [op : names, readOnly : {FALSE}]

ProjectTools ==
    Reading({"status", "list_languages", "get_project"})
        \cup Changing({"create_project", "open_project", "close_project"})
ProgramTools ==
    Reading({"list_programs", "get_program"})
        \cup Changing({"import_program", "select_program", "save_program", "analyze"})
ByteTools ==
    Reading({"job_status", "read_bytes", "map_file_offset", "list_functions",
             "decompile", "disassemble"})
AnnotationTools ==
    Reading({"get_references", "search_bytes", "get_analysis_options"})
        \cup Changing({"set_label", "set_comment", "go_to"})
MemoryTools ==
    Changing({"set_analysis_options", "cancel_analysis", "set_image_base",
              "create_memory_block", "create_instructions", "create_function"})
FunctionTools ==
    Reading({"get_function", "list_symbols", "list_strings", "get_comments"})
        \cup Changing({"rename_function", "define_data"})
InspectionTools ==
    Reading({"get_data", "get_pcode", "get_function_details", "get_control_flow"})
        \cup Changing({"export_program"})
ResearchTools ==
    Reading({"get_call_graph", "find_call_paths", "search_constants",
             "search_instructions", "search_pcode"})
FlowTools ==
    Reading({"get_references_range", "get_high_pcode", "trace_data_flow",
             "batch_decompile", "batch_references"})
CompareTools ==
    Reading({"search_decompiled_code", "get_function_fingerprint", "compare_functions",
             "find_similar_functions", "emulate_function"})
VariableTools ==
    Reading({"get_function_variables", "list_data_types"})
        \cup Changing({"rename_variable", "set_variable_type", "set_function_signature"})
TypeTools ==
    Reading({"get_data_type"})
        \cup Changing({"create_structure", "set_structure_field", "create_enum",
                       "create_union"})
ListingTools ==
    Reading({"get_structure_field_references", "get_listing", "hash_memory"})
        \cup Changing({"create_typedef", "apply_data_type"})
ContextTools ==
    Reading({"preview_instructions", "get_processor_context", "list_bookmarks"})
        \cup Changing({"set_processor_context", "clear_listing"})
BookmarkTools ==
    Reading({"list_comments", "get_function_tags"})
        \cup Changing({"set_bookmark", "delete_bookmark", "batch_set_comments"})
TagTools ==
    Reading({"compare_program_memory", "compare_saved_function"})
        \cup Changing({"update_function_tags", "batch_rename"})

Tools == ProjectTools \cup ProgramTools \cup ByteTools \cup AnnotationTools
            \cup MemoryTools \cup FunctionTools \cup InspectionTools \cup ResearchTools
            \cup FlowTools \cup CompareTools \cup VariableTools \cup TypeTools
            \cup ListingTools \cup ContextTools \cup BookmarkTools \cup TagTools
Operations == {t.op : t \in Tools}
ReadOnly   == {t.op : t \in {u \in Tools : u.readOnly}}

-----------------------------------------------------------------------------
(* Java: the operations each command class knows and calls mutations.       *)

ExtendedReads ==
    {"get_analysis_options", "get_function", "list_symbols", "list_strings",
     "get_comments", "get_data", "get_pcode"}
ExtendedOperations ==
    ExtendedReads \cup
    {"set_analysis_options", "set_image_base", "create_memory_block",
     "create_instructions", "create_function", "rename_function", "define_data",
     "export_program"}
ResearchOperations ==
    {"get_function_details", "get_control_flow", "get_call_graph", "find_call_paths",
     "search_constants", "search_instructions", "search_pcode", "get_references_range"}
FlowOperations ==
    {"get_high_pcode", "trace_data_flow", "batch_decompile", "batch_references",
     "search_decompiled_code", "compare_functions", "get_function_fingerprint",
     "find_similar_functions", "emulate_function"}
TypeReads ==
    {"get_function_variables", "list_data_types", "get_data_type",
     "get_structure_field_references"}
TypeWrites ==
    {"rename_variable", "set_variable_type", "set_function_signature",
     "create_structure", "set_structure_field", "create_enum", "create_union",
     "create_typedef", "apply_data_type"}
UtilityReads ==
    {"get_listing", "hash_memory", "preview_instructions", "get_processor_context",
     "list_bookmarks", "list_comments", "get_function_tags"}
\* A plausible slip: the newest batch command is left out of the list.
UtilityWritesWithoutRename ==
    {"set_processor_context", "clear_listing", "set_bookmark", "delete_bookmark",
     "batch_set_comments", "update_function_tags"}
UtilityWrites ==
    {"set_processor_context", "clear_listing", "set_bookmark", "delete_bookmark",
     "batch_set_comments", "update_function_tags", "batch_rename"}
ProjectInspection == {"compare_program_memory", "compare_saved_function"}
DispatcherOperations ==
    {"status", "list_languages", "get_project", "create_project", "open_project",
     "close_project", "list_programs", "import_program", "select_program",
     "get_program", "save_program", "analyze", "job_status", "read_bytes",
     "map_file_offset", "list_functions", "decompile", "disassemble",
     "get_references", "search_bytes", "set_label", "set_comment", "go_to",
     "cancel_analysis"}

Extended == ExtendedOperations \cup ResearchOperations \cup FlowOperations
                \cup TypeReads \cup TypeWrites \cup UtilityReads \cup UtilityWrites
Known    == DispatcherOperations \cup Extended \cup ProjectInspection

\* A plausible slip: the reads that were added later count as edits.
ExtendedMutationOfOldReads(op) ==
    CASE op \in ResearchOperations \cup FlowOperations -> FALSE
      [] op \in TypeReads \cup TypeWrites              -> op \in TypeWrites
      [] op \in UtilityReads \cup UtilityWrites        -> op \in UtilityWrites
      [] OTHER -> op \notin ExtendedReads \ {"get_comments", "get_data", "get_pcode"}
ExtendedMutation(op) ==
    CASE op \in ResearchOperations \cup FlowOperations -> FALSE
      [] op \in TypeReads \cup TypeWrites              -> op \in TypeWrites
      [] op \in UtilityReads \cup UtilityWrites        -> op \in UtilityWrites
      [] OTHER                                         -> op \notin ExtendedReads
IsMutation(op) ==
    IF op \in Extended THEN ExtendedMutation(op)
    ELSE op \in {"create_project", "open_project", "close_project", "import_program",
                 "select_program", "save_program", "analyze", "cancel_analysis",
                 "set_label", "set_comment"}

(* Java: the handlers that open, save, close or switch something, submit or  *)
(* cancel a job, write a file, or run in a transaction of the program.       *)
LifecycleWriters ==
    {"create_project", "open_project", "close_project", "import_program",
     "select_program", "save_program"}
JobWriters == {"analyze", "cancel_analysis"}
ProgramWriters ==
    {"set_label", "set_comment", "set_analysis_options", "set_image_base",
     "create_memory_block", "create_instructions", "create_function",
     "rename_function", "define_data"}
TypeWriters ==
    {"rename_variable", "set_variable_type", "set_function_signature",
     "create_structure", "create_union", "create_enum", "create_typedef",
     "set_structure_field", "apply_data_type"}
UtilityWriters ==
    {"set_processor_context", "clear_listing", "set_bookmark", "delete_bookmark",
     "batch_set_comments", "update_function_tags", "batch_rename"}
Writers == LifecycleWriters \cup JobWriters \cup ProgramWriters \cup {"export_program"}
                \cup TypeWriters \cup UtilityWriters

-----------------------------------------------------------------------------
VARIABLES
    pc,       \* position of each call
    tool,     \* the tool called
    queue,    \* the mutex: its holder and, behind it, those who wait
    poisoned, \* Mailbox.failed: set while a request is out, cleared by its answer
    bridge,   \* the bridge loop
    serving,  \* the call whose request the bridge has or had last
    reply,    \* what the bridge published for it
    changed,  \* calls whose command changed native state
    outcome   \* what each call told the MCP client

callVars   == <<pc, tool, queue>>
bridgeVars == <<bridge, serving, reply, changed>>
vars       == <<callVars, poisoned, bridgeVars, outcome>>

Nobody   == "nobody"
Definite == {"ok", "error", "invalid", "unsent"}
Unknown  == {c \in Callers : outcome[c] \in {"doubt", "lost"}}

Init ==
    /\ pc = [c \in Callers |-> "idle"]
    /\ tool = [c \in Callers |-> "none"]
    /\ queue = <<>>
    /\ poisoned = FALSE
    /\ bridge = "running" /\ serving = Nobody /\ reply = "none"
    /\ changed = {}
    /\ outcome = [c \in Callers |-> "none"]

Holds(c) == queue # <<>> /\ Head(queue) = c

Call(c) ==
    /\ pc[c] = "idle"
    /\ pc' = [pc EXCEPT ![c] = "waiting"]
    /\ queue' = Append(queue, c)
    /\ UNCHANGED <<tool, poisoned, bridgeVars, outcome>>

\* The call returns: its guard of the mutex is dropped and the next one wakes.
Return(c, o) ==
    /\ pc' = [pc EXCEPT ![c] = "done"]
    /\ outcome' = [outcome EXCEPT ![c] = o]
    /\ queue' = SelectSeq(queue, LAMBDA d : d # c)
    /\ UNCHANGED tool

RefuseArguments(c) ==
    /\ pc[c] = "waiting" /\ Holds(c)
    /\ Return(c, "invalid")
    /\ UNCHANGED <<poisoned, bridgeVars>>

RefuseUnsent(c) ==
    /\ pc[c] = "waiting" /\ Holds(c)
    /\ poisoned \/ bridge # "running"
    /\ Return(c, "unsent")
    /\ UNCHANGED <<poisoned, bridgeVars>>

\* Which tool it is matters from here on, so it is chosen here.
Publish(c) ==
    /\ pc[c] = "waiting" /\ Holds(c)
    /\ ~ poisoned /\ bridge = "running"
    /\ pc' = [pc EXCEPT ![c] = "asking"]
    /\ poisoned' = TRUE
    /\ \E t \in Operations : tool' = [tool EXCEPT ![c] = t]
    /\ bridge' = "working" /\ serving' = c /\ reply' = "none"
    /\ UNCHANGED <<queue, changed, outcome>>

-----------------------------------------------------------------------------
(* The bridge: one dispatch and its response.                               *)

Op == tool[serving]

Answer(kind, next, effects) ==
    /\ reply' = kind
    /\ bridge' = next
    /\ \E e \in effects : changed' = IF e /\ Op \in Writers THEN changed \cup {serving}
                                     ELSE changed
    /\ UNCHANGED <<callVars, poisoned, serving, outcome>>

Succeed == Op \in Known /\ Answer("ok", "running", {TRUE})

\* A refusal of a guard, of native code inside a transaction that is rolled
\* back, or an operation the bridge does not know.
RefuseCommand == Answer("error", "running", {FALSE})

\* checkContext after the command: the GUI user moved on meanwhile.
ContextMoved ==
    /\ Op \in Extended \cup {"save_program", "set_label", "set_comment"}
    /\ IF IsMutation(Op) THEN Answer("uncertain", "halted", {TRUE})
       ELSE Answer("error", "running", {FALSE})

\* An exception no handler expects, before or after its effect.
Fail ==
    IF IsMutation(Op) THEN Answer("uncertain", "halted", BOOLEAN)
    ELSE Answer("error", "running", BOOLEAN)

Oversize == Op \in Known /\ Answer("uncertain", "oversize", {TRUE})

Bridge ==
    /\ bridge = "working"
    /\ Succeed \/ RefuseCommand \/ ContextMoved \/ Fail \/ Oversize

-----------------------------------------------------------------------------
(* The caller again.                                                        *)

Answered(c, kind) == pc[c] = "asking" /\ serving = c /\ reply = kind

TakeResult(c) ==
    /\ Answered(c, "ok")
    /\ Return(c, "ok")
    /\ poisoned' = FALSE
    /\ UNCHANGED bridgeVars

TakeError(c) ==
    /\ Answered(c, "error")
    /\ Return(c, "error")
    /\ poisoned' = FALSE
    /\ UNCHANGED bridgeVars

\* A plausible slip: no deadline, only the bridge ends a call.
GiveUpOnAnswer(c) ==
    /\ Answered(c, "ok") \/ Answered(c, "uncertain")
    /\ Return(c, "doubt")
    /\ UNCHANGED <<poisoned, bridgeVars>>

\* An uncertain answer, a result that validation refuses, or the deadline.
GiveUp(c) ==
    /\ pc[c] = "asking"
    /\ ~ Answered(c, "error")
    /\ Return(c, "doubt")
    /\ UNCHANGED <<poisoned, bridgeVars>>

\* A plausible slip: a dropped call cleans the poison of the mailbox.
DropCleanly(c) ==
    /\ pc[c] \in {"waiting", "asking"}
    /\ Return(c, IF pc[c] = "asking" THEN "lost" ELSE "dropped")
    /\ poisoned' = FALSE
    /\ UNCHANGED bridgeVars

\* The MCP client cancels: the future is dropped, wherever it waits.
Drop(c) ==
    /\ pc[c] \in {"waiting", "asking"}
    /\ Return(c, IF pc[c] = "asking" THEN "lost" ELSE "dropped")
    /\ UNCHANGED <<poisoned, bridgeVars>>

Proceed(c) ==
    RefuseArguments(c) \/ RefuseUnsent(c) \/ Publish(c) \/ TakeResult(c)
        \/ TakeError(c) \/ GiveUp(c)

\* Every call has been made and returned.
Finished ==
    /\ \A c \in Callers : pc[c] = "done"
    /\ bridge # "working"
    /\ UNCHANGED vars

Next ==
    \/ \E c \in Callers : Call(c) \/ Proceed(c) \/ Drop(c)
    \/ Bridge
    \/ Finished

Spec     == Init /\ [][Next]_vars
FairSpec == Spec /\ \A c \in Callers : WF_vars(Proceed(c))

-----------------------------------------------------------------------------
\* A tool that announces read_only_hint changes nothing, and no failure of its
\* command makes the bridge halt as if a mutation were in doubt: the hints in
\* server.rs agree with isMutation and with what the Java handlers do.
HintsHold ==
    /\ \A c \in changed : tool[c] \notin ReadOnly
    /\ bridge = "halted" => tool[serving] \notin ReadOnly

\* A definite error means that the command changed nothing: every handler that
\* writes is a mutation for the bridge's failure handling.
DefiniteErrorsChangeNothing ==
    \A c \in Callers : outcome[c] \in {"error", "invalid", "unsent"} => c \notin changed

\* Once the outcome of one call is unknown (doubt, or its future was dropped
\* with the request out) no other call publishes a request.
NothingAfterDoubt == [][Unknown # {} => serving' = serving]_vars

\* A call that waits for the mutex or for its answer returns.
CallsEnd == \A c \in Callers : pc[c] = "waiting" ~> pc[c] = "done"
=============================================================================
