------------------------ MODULE ToolRegistry_proofs ------------------------
(***************************************************************************)
(* Any number of concurrent tool calls over one mailbox.  The argument does  *)
(* not need the mutex: the poison of the mailbox alone keeps requests apart, *)
(* and the three handwritten lists of operations agree.                     *)
(***************************************************************************)
EXTENDS ToolRegistry, TLAPS

-----------------------------------------------------------------------------
(* The lists.                                                               *)

\* What the tools announce as changing, list by list.
Announced ==
    {"create_project", "open_project", "close_project", "import_program",
     "select_program", "save_program", "analyze", "set_label", "set_comment", "go_to",
     "set_analysis_options", "cancel_analysis", "set_image_base", "create_memory_block",
     "create_instructions", "create_function", "rename_function", "define_data",
     "export_program", "rename_variable", "set_variable_type", "set_function_signature",
     "create_structure", "set_structure_field", "create_enum", "create_union",
     "create_typedef", "apply_data_type", "set_processor_context", "clear_listing",
     "set_bookmark", "delete_bookmark", "batch_set_comments", "update_function_tags",
     "batch_rename"}

LEMMA ReadOnlyNames == ReadOnly \cap Announced = {}
<1> SUFFICES ASSUME NEW t \in Tools, t.readOnly PROVE t.op \notin Announced
  BY DEF ReadOnly
<1> USE DEF Reading, Changing, Announced
<1>1. ASSUME t \in ProjectTools PROVE t.op \notin Announced
  BY <1>1 DEF ProjectTools
<1>2. ASSUME t \in ProgramTools PROVE t.op \notin Announced
  BY <1>2 DEF ProgramTools
<1>3. ASSUME t \in ByteTools PROVE t.op \notin Announced
  BY <1>3 DEF ByteTools
<1>4. ASSUME t \in AnnotationTools PROVE t.op \notin Announced
  BY <1>4 DEF AnnotationTools
<1>5. ASSUME t \in MemoryTools PROVE t.op \notin Announced
  BY <1>5 DEF MemoryTools
<1>6. ASSUME t \in FunctionTools PROVE t.op \notin Announced
  BY <1>6 DEF FunctionTools
<1>7. ASSUME t \in InspectionTools PROVE t.op \notin Announced
  BY <1>7 DEF InspectionTools
<1>8. ASSUME t \in ResearchTools \cup FlowTools \cup CompareTools PROVE t.op \notin Announced
  BY <1>8 DEF ResearchTools, FlowTools, CompareTools
<1>9. ASSUME t \in VariableTools \cup TypeTools PROVE t.op \notin Announced
  BY <1>9 DEF VariableTools, TypeTools
<1>10. ASSUME t \in ListingTools \cup ContextTools PROVE t.op \notin Announced
  BY <1>10 DEF ListingTools, ContextTools
<1>11. ASSUME t \in BookmarkTools \cup TagTools PROVE t.op \notin Announced
  BY <1>11 DEF BookmarkTools, TagTools
<1> QED
  BY <1>1, <1>2, <1>3, <1>4, <1>5, <1>6, <1>7, <1>8, <1>9, <1>10, <1>11 DEF Tools

\* Every handler that writes is a mutation for the bridge's failure handling.
LEMMA WritersAreMutations == \A op \in Writers : IsMutation(op)
  BY DEF Writers, LifecycleWriters, JobWriters, ProgramWriters, TypeWriters, UtilityWriters,
         IsMutation, Extended, ExtendedMutation, ExtendedOperations, ExtendedReads,
         ResearchOperations, FlowOperations, TypeReads, TypeWrites, UtilityReads,
         UtilityWrites, UtilityWriters

\* No mutation is announced as a read.
LEMMA MutationsAreAnnounced == \A op \in Known : IsMutation(op) => op \in Announced
  BY DEF Known, DispatcherOperations, ProjectInspection, Announced,
         IsMutation, Extended, ExtendedMutation, ExtendedOperations, ExtendedReads,
         ResearchOperations, FlowOperations, TypeReads, TypeWrites, UtilityReads,
         UtilityWrites

LEMMA MutationsNotReadOnly == \A op : IsMutation(op) => op \notin ReadOnly
<1> SUFFICES ASSUME NEW op, IsMutation(op) PROVE op \in Announced
  BY ReadOnlyNames
<1>1. CASE op \in Known
  BY <1>1, MutationsAreAnnounced
<1>2. CASE op \notin Known
  BY <1>2 DEF IsMutation, Known, Announced
<1> QED
  BY <1>1, <1>2

-----------------------------------------------------------------------------
(* The inductive invariant.                                                 *)

Positions == {"idle", "waiting", "asking", "done"}
Outcomes  == {"none", "ok", "error", "invalid", "unsent", "doubt", "lost", "dropped"}

Shape ==
    /\ pc \in [Callers -> Positions]
    /\ outcome \in [Callers -> Outcomes]
    /\ DOMAIN tool = Callers
    /\ serving \in Callers \cup {Nobody}
    /\ changed \subseteq Callers
    /\ poisoned \in BOOLEAN

\* A request is out, or was left behind, only while the mailbox is poisoned.
Poison ==
    \A c \in Callers :
        /\ outcome[c] # "none" => pc[c] = "done"
        /\ pc[c] = "asking" \/ outcome[c] \in {"doubt", "lost"} => poisoned /\ serving = c

\* While the bridge works, its caller asks or has given up, and nothing of the
\* command is visible yet.
Working ==
    bridge = "working" =>
        /\ serving \in Callers
        /\ reply = "none"
        /\ serving \notin changed
        /\ pc[serving] = "asking" \/ outcome[serving] \in {"doubt", "lost"}

\* What has changed, and what a failure may say about it.
Effects ==
    /\ \A c \in changed : pc[c] \in {"asking", "done"} /\ tool[c] \in Writers
    /\ \A c \in changed : outcome[c] \notin {"error", "invalid", "unsent"}
    /\ reply = "error" => serving \notin changed
    /\ bridge = "halted" => IsMutation(tool[serving])

RegistryInv == Shape /\ Poison /\ Working /\ Effects

LEMMA RegistryInit == Init => RegistryInv
  BY DEF Init, RegistryInv, Shape, Poison, Working, Effects, Positions, Outcomes, Nobody

LEMMA ReturnOutcome ==
    ASSUME RegistryInv, NEW c \in Callers, NEW o \in Outcomes, Return(c, o)
    PROVE  /\ pc' \in [Callers -> Positions] /\ outcome' \in [Callers -> Outcomes]
           /\ pc'[c] = "done" /\ outcome'[c] = o
           /\ \A d \in Callers \ {c} : pc'[d] = pc[d] /\ outcome'[d] = outcome[d]
           /\ tool' = tool
  BY DEF RegistryInv, Shape, Return, Positions

LEMMA RegistryStep == RegistryInv /\ [Next]_vars => RegistryInv'
<1> SUFFICES ASSUME RegistryInv, [Next]_vars PROVE RegistryInv'
  OBVIOUS
<1>0. Nobody \notin Callers
  BY CallersAssumption DEF Nobody
<1>1. ASSUME NEW c \in Callers, Call(c) PROVE RegistryInv'
  BY <1>1 DEF Call, RegistryInv, Shape, Poison, Working, Effects, Positions, bridgeVars
<1>2. ASSUME NEW c \in Callers, RefuseArguments(c) \/ RefuseUnsent(c) PROVE RegistryInv'
  <2>1. PICK o \in {"invalid", "unsent"} : Return(c, o) /\ pc[c] = "waiting"
    BY <1>2 DEF RefuseArguments, RefuseUnsent
  <2>2. UNCHANGED <<poisoned, bridgeVars>>
    BY <1>2 DEF RefuseArguments, RefuseUnsent
  <2>3. o \in Outcomes
    BY DEF Outcomes
  <2> QED
    BY <2>1, <2>2, <2>3, ReturnOutcome
       DEF RegistryInv, Shape, Poison, Working, Effects, bridgeVars
<1>3. ASSUME NEW c \in Callers, Publish(c) PROVE RegistryInv'
  <2>1. /\ pc' = [pc EXCEPT ![c] = "asking"] /\ pc[c] = "waiting"
        /\ ~ poisoned /\ poisoned' /\ bridge' = "working" /\ serving' = c /\ reply' = "none"
        /\ changed' = changed /\ outcome' = outcome
        /\ DOMAIN tool' = DOMAIN tool /\ \A d \in Callers \ {c} : tool'[d] = tool[d]
    BY <1>3 DEF Publish, RegistryInv, Shape
  <2>2. Shape'
    BY <2>1, <1>3 DEF Publish, RegistryInv, Shape, Positions
  <2>3. Poison'
    BY <2>1 DEF RegistryInv, Shape, Poison
  <2>4. Working' /\ Effects'
    BY <2>1 DEF RegistryInv, Shape, Working, Effects
  <2> QED
    BY <2>2, <2>3, <2>4 DEF RegistryInv
<1>4. ASSUME NEW c \in Callers, TakeResult(c) \/ TakeError(c) PROVE RegistryInv'
  <2>1. PICK o \in {"ok", "error"} : Return(c, o) /\ Answered(c, o)
    BY <1>4 DEF TakeResult, TakeError
  <2>2. poisoned' = FALSE /\ UNCHANGED bridgeVars
    BY <1>4 DEF TakeResult, TakeError
  <2>3. o \in Outcomes
    BY DEF Outcomes
  <2>4. bridge # "working"
    BY <2>1 DEF Answered, RegistryInv, Working
  <2>5. /\ pc' \in [Callers -> Positions] /\ outcome' \in [Callers -> Outcomes]
        /\ pc'[c] = "done" /\ outcome'[c] = o /\ tool' = tool
        /\ \A d \in Callers \ {c} : pc'[d] = pc[d] /\ outcome'[d] = outcome[d]
    BY <2>1, <2>3, ReturnOutcome
  <2>6. serving = c /\ reply = o /\ UNCHANGED <<bridge, serving, reply, changed>>
    BY <2>1, <2>2 DEF Answered, bridgeVars
  <2>7. Shape'
    BY <2>2, <2>5, <2>6 DEF RegistryInv, Shape
  <2>8. Poison'
    BY <2>1, <2>5, <2>6 DEF RegistryInv, Poison
  <2>9. Working' /\ Effects'
    BY <2>1, <2>4, <2>5, <2>6 DEF RegistryInv, Shape, Working, Effects
  <2> QED
    BY <2>7, <2>8, <2>9 DEF RegistryInv
<1>5. ASSUME NEW c \in Callers, GiveUp(c) \/ Drop(c) PROVE RegistryInv'
  <2>1. PICK o \in {"doubt", "lost", "dropped"} :
           /\ Return(c, o) /\ pc[c] \in {"waiting", "asking"}
           /\ o = "dropped" <=> pc[c] = "waiting"
    BY <1>5 DEF GiveUp, Drop
  <2>2. UNCHANGED <<poisoned, bridgeVars>>
    BY <1>5 DEF GiveUp, Drop
  <2>3. o \in Outcomes
    BY DEF Outcomes
  <2> QED
    BY <2>1, <2>2, <2>3, ReturnOutcome
       DEF RegistryInv, Shape, Poison, Working, Effects, bridgeVars
<1>6. ASSUME Bridge PROVE RegistryInv'
  <2>1. PICK kind \in {"ok", "error", "uncertain"}, next \in {"running", "halted", "oversize"},
             effects \in SUBSET BOOLEAN :
               /\ Answer(kind, next, effects)
               /\ next = "halted" => IsMutation(Op)
               /\ kind = "error" => effects = {FALSE} \/ ~ IsMutation(Op)
    <3>1. CASE Succeed
      BY <3>1 DEF Succeed
    <3>2. CASE RefuseCommand
      BY <3>2 DEF RefuseCommand
    <3>3. CASE ContextMoved
      BY <3>3 DEF ContextMoved
    <3>4. CASE Fail
      BY <3>4 DEF Fail
    <3>5. CASE Oversize
      BY <3>5 DEF Oversize
    <3> QED
      BY <1>6, <3>1, <3>2, <3>3, <3>4, <3>5 DEF Bridge
  <2>2. /\ reply' = kind /\ bridge' = next /\ serving' = serving
        /\ UNCHANGED <<pc, tool, poisoned, outcome>>
        /\ \/ changed' = changed
           \/ changed' = changed \cup {serving} /\ Op \in Writers
        /\ kind = "error" => changed' = changed
    <3>1. PICK e \in effects : changed' = IF e /\ Op \in Writers THEN changed \cup {serving}
                                         ELSE changed
      BY <2>1 DEF Answer
    <3>2. ASSUME e, Op \in Writers PROVE kind # "error"
      <4>1. IsMutation(Op)
        BY <3>2, WritersAreMutations
      <4>2. effects # {FALSE}
        BY <3>1, <3>2
      <4> QED
        BY <2>1, <4>1, <4>2
    <3> QED
      BY <2>1, <3>1, <3>2 DEF Answer, callVars
  <2>3. bridge = "working"
    BY <1>6 DEF Bridge
  <2> QED
    BY <2>1, <2>2, <2>3 DEF RegistryInv, Shape, Poison, Working, Effects, Op
<1>7. CASE Finished \/ UNCHANGED vars
  BY <1>7 DEF Finished, vars, callVars, bridgeVars, RegistryInv, Shape, Poison, Working,
              Effects
<1> QED
  BY <1>1, <1>2, <1>3, <1>4, <1>5, <1>6, <1>7 DEF Next, Proceed

LEMMA RegistryHolds == Spec => []RegistryInv
  BY RegistryInit, RegistryStep, PTL DEF Spec

\* A tool that announces read_only_hint changes nothing and never halts the
\* bridge, with any number of callers: the lists in server.rs and in Java agree.
THEOREM HintsAreHonest == Spec => []HintsHold
<1>1. RegistryInv => HintsHold
  BY WritersAreMutations, MutationsNotReadOnly DEF RegistryInv, Effects, HintsHold
<1> QED
  BY <1>1, RegistryHolds, PTL

\* One request is out at a time, though only the poison of the mailbox is looked at
\* before publishing: a call that is dropped hands the mutex on while its request
\* is still with the bridge.
OneRequestOut == \A c, d \in Callers : pc[c] = "asking" /\ pc[d] = "asking" => c = d

\* Calls never overlap in the mailbox, whatever is dropped and whoever waits.
THEOREM RequestsDoNotOverlap == Spec => []OneRequestOut
<1>1. RegistryInv => OneRequestOut
  BY DEF RegistryInv, Poison, OneRequestOut
<1> QED
  BY <1>1, RegistryHolds, PTL

\* A call that returned a definite error changed nothing, then or later.
THEOREM DefiniteMeansUnchanged == Spec => []DefiniteErrorsChangeNothing
<1>1. RegistryInv => DefiniteErrorsChangeNothing
  BY DEF RegistryInv, Effects, DefiniteErrorsChangeNothing
<1> QED
  BY <1>1, RegistryHolds, PTL

\* After a doubt or a lost future nothing is sent: the poison outlives the call
\* that left it, whatever the other calls do.
THEOREM DoubtEndsTheSession == Spec => NothingAfterDoubt
<1>1. RegistryInv /\ Unknown # {} /\ [Next]_vars => serving' = serving
  <2> SUFFICES ASSUME RegistryInv, Unknown # {}, [Next]_vars PROVE serving' = serving
    OBVIOUS
  <2>1. poisoned
    BY DEF Unknown, RegistryInv, Poison
  <2>2. ASSUME NEW c \in Callers, Call(c) \/ Proceed(c) \/ Drop(c) PROVE serving' = serving
    BY <2>1, <2>2 DEF Call, Proceed, Drop, RefuseArguments, RefuseUnsent, Publish, TakeResult,
                      TakeError, GiveUp, bridgeVars
  <2>3. ASSUME Bridge PROVE serving' = serving
    BY <2>3 DEF Bridge, Succeed, RefuseCommand, ContextMoved, Fail, Oversize, Answer
  <2> QED
    BY <2>2, <2>3 DEF Next, Finished, vars, bridgeVars
<1> QED
  BY <1>1, RegistryHolds, PTL DEF Spec, NothingAfterDoubt
=============================================================================
