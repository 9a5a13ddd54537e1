------------------------ MODULE WorkflowRegistryProofs ------------------------
(***************************************************************************)
(* Proofs about the registry of definitions and its loader (definition.go, *)
(* loader.go), for every set of directories and however many calls, loads  *)
(* and listeners.  A directory is registered in the order of its files up  *)
(* to the first broken one; and whatever is registered and removed while a *)
(* call runs, the call moves its instance by one definition, once the      *)
(* matching listeners have enriched its input one after the other.         *)
(***************************************************************************)
EXTENDS WorkflowRegistry, TLAPS

-----------------------------------------------------------------------------
(* Calls and definitions. *)

\* A call that found actions found them in one definition that it knew at its start.
FoundInOne(k) ==
  \E def \in k.known \ {NotFound} : k.act = GetTransitionAction(def, k.from.step, k.action)

MovedByOne(k) ==
  \E def \in k.known \ {NotFound} :
    \E act \in GetTransitionAction(def, k.from.step, k.action) : k.row = Advance(k.from, act)

CallOK(k) ==
  /\ DOMAIN k = DOMAIN NewCall
  /\ k.stage \in {"emitBefore", "listening"} => FoundInOne(k) /\ k.row = k.from
  /\ k.stage = "moved" => MovedByOne(k)

CallsInv == DOMAIN call = Calls /\ \A c \in Calls : CallOK(call[c])

LEMMA OneCallSet ==
  ASSUME CallsInv, NEW c \in Calls, NEW k, Set(c, k), CallOK(k)
  PROVE  CallsInv'
  BY DEF CallsInv, Set

LEMMA BeginCallKeeps == ASSUME CallsInv, NEW c \in Calls, BeginCall(c) PROVE CallsInv'
  <1>1. PICK t \in WorkflowTypes, a \in ActionNames, step \in StepNames, state \in StateNames :
          \E def \in GetWorkflow(t) :
            LET acts == IF def = NotFound THEN {} ELSE GetTransitionAction(def, step, a)
                row == [type |-> t, step |-> step, state |-> state]
            IN  Set(c, [NewCall EXCEPT !.stage = IF acts = {} THEN "refused" ELSE "emitBefore",
                                       !.from = row, !.row = row, !.action = a, !.act = acts,
                                       !.known = GetWorkflow(t)])
    BY DEF BeginCall
  <1>2. PICK def \in GetWorkflow(t) :
          LET acts == IF def = NotFound THEN {} ELSE GetTransitionAction(def, step, a)
              row == [type |-> t, step |-> step, state |-> state]
          IN  Set(c, [NewCall EXCEPT !.stage = IF acts = {} THEN "refused" ELSE "emitBefore",
                                     !.from = row, !.row = row, !.action = a, !.act = acts,
                                     !.known = GetWorkflow(t)])
    BY <1>1
  <1> DEFINE acts == IF def = NotFound THEN {} ELSE GetTransitionAction(def, step, a)
             row == [type |-> t, step |-> step, state |-> state]
             stage == IF acts = {} THEN "refused" ELSE "emitBefore"
             known == GetWorkflow(t)
             k == [NewCall EXCEPT !.stage = stage, !.from = row, !.row = row, !.action = a,
                                  !.act = acts, !.known = known]
  <1>3. Set(c, k)
    BY <1>2
  <1>4. /\ k.stage = stage /\ k.from = row /\ k.row = row /\ k.action = a /\ k.act = acts
        /\ k.known = known /\ DOMAIN k = DOMAIN NewCall
    <2> HIDE DEF stage, acts, row, known
    <2> QED
      BY DEF NewCall
  <1>5. row.step = step
    OBVIOUS
  <1>6. stage = "emitBefore" =>
          def \in known \ {NotFound} /\ acts = GetTransitionAction(def, row.step, a)
    BY <1>5
  <1>7. stage \in {"refused", "emitBefore"}
    OBVIOUS
  <1> HIDE DEF stage, acts, row, known, k
  <1>8. CallOK(k)
    BY <1>4, <1>6, <1>7 DEF CallOK, FoundInOne
  <1> QED
    BY <1>3, <1>8, OneCallSet

LEMMA CopyListenersKeeps == ASSUME CallsInv, NEW c \in Calls, CopyListeners(c) PROVE CallsInv'
  <1> DEFINE k == [call[c] EXCEPT !.stage = "listening", !.copied = Len(listeners)]
  <1>1. Set(c, k) /\ call[c].stage = "emitBefore" /\ CallOK(call[c])
    BY DEF CopyListeners, CallsInv
  <1>2. CallOK(k)
    BY <1>1 DEF CallOK, FoundInOne
  <1> QED
    BY <1>1, <1>2, OneCallSet

LEMMA CallListenerKeeps == ASSUME CallsInv, NEW c \in Calls, CallListener(c) PROVE CallsInv'
  <1> DEFINE n == call[c].next
             passed == [call[c] EXCEPT !.next = n + 1]
  <1>1. call[c].stage = "listening" /\ CallOK(call[c])
    BY DEF CallListener, CallsInv
  <1>2. CASE Set(c, passed)
    <2>1. CallOK(passed)
      BY <1>1 DEF CallOK, FoundInOne
    <2> QED
      BY <1>2, <2>1, OneCallSet
  <1>3. ASSUME NEW data, NEW stage \in {"listening", "blocked"},
               Set(c, [call[c] EXCEPT !.stage = stage, !.next = n + 1, !.input = data,
                                      !.asked = Append(@, Asked(n, call[c].input, data))])
        PROVE  CallsInv'
    <2> DEFINE asked == Append(call[c].asked, Asked(n, call[c].input, data))
               k == [call[c] EXCEPT !.stage = stage, !.next = n + 1, !.input = data,
                                    !.asked = asked]
    <2>1. Set(c, k)
      BY <1>3
    <2>2. CallOK(k)
      <3> HIDE DEF asked
      <3> QED
        BY <1>1 DEF CallOK, FoundInOne
    <2> HIDE DEF k
    <2> QED
      BY <2>1, <2>2, OneCallSet
  <1> QED
    BY <1>2, <1>3 DEF CallListener

LEMMA MoveKeeps == ASSUME CallsInv, NEW c \in Calls, Move(c) PROVE CallsInv'
  <1>1. PICK act \in call[c].act :
          Set(c, [call[c] EXCEPT !.stage = "moved", !.row = Advance(@, act)])
    BY DEF Move
  <1> DEFINE row == Advance(call[c].row, act)
             k == [call[c] EXCEPT !.stage = "moved", !.row = row]
  <1>2. Set(c, k) /\ call[c].stage = "listening" /\ CallOK(call[c])
    BY <1>1 DEF Move, CallsInv
  <1>3. PICK def \in call[c].known \ {NotFound} :
          call[c].act = GetTransitionAction(def, call[c].from.step, call[c].action)
    BY <1>2 DEF CallOK, FoundInOne
  <1>4. row = Advance(call[c].from, act)
    BY <1>2 DEF CallOK
  <1>5. CallOK(k)
    <2> HIDE DEF row
    <2>1. k.stage = "moved" /\ k.row = row /\ k.from = call[c].from /\ k.known = call[c].known
          /\ k.action = call[c].action /\ DOMAIN k = DOMAIN NewCall
      BY <1>2 DEF CallOK, NewCall
    <2> HIDE DEF k
    <2> QED
      BY <1>1, <1>3, <1>4, <2>1 DEF CallOK, MovedByOne
  <1> HIDE DEF k
  <1> QED
    BY <1>2, <1>5, OneCallSet

LEMMA NextKeepsCalls == CallsInv /\ [Next]_vars => CallsInv'
  <1> SUFFICES ASSUME CallsInv, [Next]_vars PROVE CallsInv'
    OBVIOUS
  <1>1. CASE UNCHANGED call
    BY <1>1 DEF CallsInv
  <1>2. ASSUME NEW c \in Calls, BeginCall(c) \/ CopyListeners(c) \/ CallListener(c) \/ Move(c)
        PROVE  CallsInv'
    BY <1>2, BeginCallKeeps, CopyListenersKeeps, CallListenerKeeps, MoveKeeps
  <1>3. CASE UNCHANGED vars
    BY <1>1, <1>3 DEF vars
  <1>4. CASE ReadDir \/ LoadFile \/ RegisterWorkflow \/ EndLoad \/ EndUnregister \/ Throw
    BY <1>1, <1>4 DEF ReadDir, LoadFile, RegisterWorkflow, EndLoad, EndUnregister, Throw
  <1>5. ASSUME NEW t, UnregisterWorkflow(t) PROVE CallsInv'
    BY <1>1, <1>5 DEF UnregisterWorkflow
  <1>6. ASSUME NEW filter, OnBeforeTransition(filter) PROVE CallsInv'
    BY <1>1, <1>6 DEF OnBeforeTransition
  <1> QED
    BY <1>2, <1>3, <1>4, <1>5, <1>6 DEF Next

\* service.go:160-206: whatever is registered and removed while the listeners of a call
\* run, the row it saves is what one definition known at its start makes of the row it read.
THEOREM OneDefinitionMoves == Spec => []MovesByOneDefinition
  <1>1. Init => CallsInv
    BY DEF Init, CallsInv, CallOK, NewCall
  <1>2. CallsInv => MovesByOneDefinition
    BY DEF CallsInv, CallOK, MovedByOne, MovesByOneDefinition
  <1> QED
    BY <1>1, <1>2, NextKeepsCalls, PTL DEF Spec

-----------------------------------------------------------------------------
(* The loader. *)

Done == Range(load.registered)

\* The workflow files before the one at n, of which none is broken.
Before(n) == {m \in 1 .. n - 1 : load.files[m].kind = "workflow"}
SoundTo(n) == \A m \in 1 .. n - 1 : load.files[m].kind # "broken"

\* What the loader says of file n: a later file for its type, or the type itself, or
\* nothing any more.
Kept(n) ==
  LET def == ParseWorkflowFromJSON(load.files[n].config) IN
  \/ def.type \in load.removed
  \/ workflows[def.type] = def
  \/ \E m \in Done : m > n /\ load.files[m].config.type = def.type

LoadFields == {"stage", "loads", "files", "next", "registered", "removed"}

LoadTyped ==
  /\ DOMAIN workflows = WorkflowTypes
  /\ DOMAIN load = LoadFields
  /\ load.stage \in {"idle", "scanning", "loaded", "failed"}
  /\ load.files \in Seq(Range(load.files)) /\ Len(load.files) \in Nat
  /\ load.registered \in Seq(Nat)
  /\ load.next \in 1 .. Len(load.files) + 1
  /\ \A n \in DOMAIN load.files :
       /\ load.files[n].kind \in {"directory", "other", "broken", "workflow"}
       /\ load.files[n].config.type \in WorkflowTypes

LoadOK ==
  /\ load.stage = "idle" => load.registered = <<>> /\ write = {}
  /\ load.stage = "scanning" =>
       /\ SoundTo(load.next) /\ Done = Before(load.next)
       /\ write # {} => /\ load.next <= Len(load.files) /\ File.kind = "workflow"
                        /\ write = {Entry(File.config.type, ParseWorkflowFromJSON(File.config))}
  /\ load.stage = "loaded" =>
       /\ SoundTo(load.next) /\ Done = Before(load.next) /\ load.next = Len(load.files) + 1
       /\ load.registered # <<>>
       /\ \A entry \in write : entry.type \in WorkflowTypes
  /\ load.stage = "failed" =>
       /\ write = {}
       /\ \/ load.registered = <<>>
          \/ /\ SoundTo(load.next) /\ Done = Before(load.next)
             /\ load.next <= Len(load.files) /\ File.kind = "broken"

LoadInv == LoadTyped /\ LoadOK /\ \A n \in Done : Kept(n)

LEMMA ParsedType == ASSUME NEW config PROVE ParseWorkflowFromJSON(config).type = config.type
  BY DEF ParseWorkflowFromJSON

LEMMA NothingRegistered == Range(<<>>) = {}
  BY DEF Range

LEMMA AppendedIsLonger ==
  ASSUME NEW S, NEW s \in Seq(S), NEW x \in S
  PROVE  Append(s, x) \in Seq(S) /\ Append(s, x) # <<>>
  <1>1. Append(s, x) \in Seq(S)
    OBVIOUS
  <1>2. Len(Append(s, x)) = Len(s) + 1 /\ Len(s) \in Nat /\ Len(<<>>) = 0
    OBVIOUS
  <1> QED
    BY <1>1, <1>2

LEMMA OneMoreRegistered ==
  ASSUME NEW s \in Seq(Nat), NEW n \in Nat
  PROVE  Append(s, n) \in Seq(Nat) /\ Range(Append(s, n)) = Range(s) \cup {n}
         /\ Append(s, n) # <<>>
  <1>1. Append(s, n) \in Seq(Nat) /\ Append(s, n) # <<>>
    BY AppendedIsLonger
  <1>2. /\ DOMAIN Append(s, n) = 1 .. (Len(s) + 1) /\ DOMAIN s = 1 .. Len(s) /\ Len(s) \in Nat
        /\ \A i \in 1 .. Len(s) : Append(s, n)[i] = s[i]
        /\ Append(s, n)[Len(s) + 1] = n
    OBVIOUS
  <1>3. Range(Append(s, n)) = Range(s) \cup {n}
    BY <1>2 DEF Range
  <1> QED
    BY <1>1, <1>3

LEMMA ReadDirKeeps == ASSUME LoadInv, ReadDir PROVE LoadInv'
  <1>1. PICK files \in Directories, stage \in {"scanning", "failed"} :
          load' = [stage |-> stage, loads |-> load.loads + 1, files |-> files, next |-> 1,
                   registered |-> <<>>, removed |-> {}]
    BY DEF ReadDir
  <1>2. /\ load'.stage = stage /\ load'.files = files /\ load'.next = 1
        /\ load'.registered = <<>> /\ load'.removed = {} /\ DOMAIN load' = LoadFields
    BY <1>1 DEF LoadFields
  <1>3. write = {} /\ UNCHANGED <<workflows, write>>
    BY DEF ReadDir
  <1>4. files \in Seq(Range(files)) /\ Len(files) \in Nat
    BY DirectoriesAssumption
  <1>5. LoadTyped'
    <2>1. 1 \in 1 .. Len(files) + 1 /\ <<>> \in Seq(Nat)
      BY <1>4
    <2> QED
      BY <1>2, <1>3, <1>4, <2>1, DirectoriesAssumption DEF LoadTyped, LoadInv
  <1>6. Done' = {} /\ Before(load.next)' = {} /\ SoundTo(load.next)'
    <2>1. Done' = {}
      BY <1>2, NothingRegistered DEF Done
    <2>2. 1 .. 1 - 1 = {}
      OBVIOUS
    <2> QED
      BY <1>2, <2>1, <2>2 DEF Before, SoundTo
  <1>7. LoadOK'
    BY <1>2, <1>3, <1>6 DEF LoadOK
  <1> QED
    BY <1>5, <1>6, <1>7 DEF LoadInv

\* One file further, past one that is no workflow.
LEMMA LoadFileKeeps == ASSUME LoadInv, LoadFile PROVE LoadInv'
  <1>1. /\ load.stage = "scanning" /\ write = {} /\ load.next <= Len(load.files)
        /\ UNCHANGED workflows
    BY DEF LoadFile
  <1>2. /\ load.next \in DOMAIN load.files /\ load.next \in Nat /\ Len(load.files) \in Nat
        /\ SoundTo(load.next) /\ Done = Before(load.next)
    BY <1>1 DEF LoadInv, LoadTyped, LoadOK
  <1>3. ASSUME File.kind \in {"directory", "other"}, load' = [load EXCEPT !.next = @ + 1],
               UNCHANGED write
        PROVE  LoadInv'
    <2>1. /\ load'.stage = load.stage /\ load'.files = load.files
          /\ load'.next = load.next + 1 /\ load'.registered = load.registered
          /\ load'.removed = load.removed /\ DOMAIN load' = LoadFields
      BY <1>3 DEF LoadInv, LoadTyped, LoadFields
    <2>2. LoadTyped'
      BY <1>1, <1>2, <2>1 DEF LoadInv, LoadTyped
    <2>3. Done' = Done /\ Before(load.next)' = Before(load.next) /\ SoundTo(load.next)'
      <3>1. 1 .. load.next + 1 - 1 = (1 .. load.next - 1) \cup {load.next}
        BY <1>2
      <3>2. load.files[load.next].kind \notin {"workflow", "broken"}
        BY <1>3 DEF File
      <3> QED
        BY <1>2, <2>1, <3>1, <3>2 DEF Before, SoundTo, Done
    <2>4. LoadOK'
      BY <1>1, <1>2, <1>3, <2>1, <2>3 DEF LoadOK
    <2>5. \A n \in Done' : Kept(n)'
      BY <1>1, <2>1, <2>3 DEF Kept, LoadInv
    <2> QED
      BY <2>2, <2>4, <2>5 DEF LoadInv
  <1>4. ASSUME File.kind = "broken", load' = [load EXCEPT !.stage = "failed"], UNCHANGED write
        PROVE  LoadInv'
    <2>1. /\ load'.stage = "failed" /\ load'.files = load.files
          /\ load'.next = load.next /\ load'.registered = load.registered
          /\ load'.removed = load.removed /\ DOMAIN load' = LoadFields
      BY <1>4 DEF LoadInv, LoadTyped, LoadFields
    <2>2. LoadTyped'
      BY <1>1, <2>1 DEF LoadInv, LoadTyped
    <2>3. Done' = Done /\ Before(load.next)' = Before(load.next) /\ SoundTo(load.next)'
          /\ File' = File
      BY <1>2, <2>1 DEF Before, SoundTo, Done, File
    <2>4. LoadOK'
      BY <1>1, <1>2, <1>4, <2>1, <2>3 DEF LoadOK
    <2>5. \A n \in Done' : Kept(n)'
      BY <1>1, <2>1, <2>3 DEF Kept, LoadInv
    <2> QED
      BY <2>2, <2>4, <2>5 DEF LoadInv
  <1>5. ASSUME File.kind = "workflow", UNCHANGED load,
               write' = {Entry(File.config.type, ParseWorkflowFromJSON(File.config))}
        PROVE  LoadInv'
    <2>1. Done' = Done /\ Before(load.next)' = Before(load.next) /\ SoundTo(load.next)'
          /\ File' = File
      BY <1>2, <1>5 DEF Before, SoundTo, Done, File
    <2>2. LoadTyped'
      BY <1>1, <1>5 DEF LoadInv, LoadTyped
    <2>3. LoadOK'
      BY <1>1, <1>2, <1>5, <2>1 DEF LoadOK
    <2>4. \A n \in Done' : Kept(n)'
      BY <1>1, <1>5, <2>1 DEF Kept, LoadInv
    <2> QED
      BY <2>2, <2>3, <2>4 DEF LoadInv
  <1> QED
    BY <1>3, <1>4, <1>5 DEF LoadFile

LEMMA RegisterKeeps == ASSUME LoadInv, RegisterWorkflow PROVE LoadInv'
  <1>1. PICK entry \in write :
          /\ workflows' = [workflows EXCEPT ![entry.type] = entry.def]
          /\ load' = [load EXCEPT !.registered = Append(@, load.next), !.next = @ + 1]
    BY DEF RegisterWorkflow
  <1>2. load.stage = "scanning" /\ write' = {} /\ write # {}
    BY DEF RegisterWorkflow
  <1> DEFINE here == load.next
             config == load.files[here].config
             def == ParseWorkflowFromJSON(config)
  <1>3. /\ SoundTo(here) /\ Done = Before(here) /\ here <= Len(load.files)
        /\ load.files[here].kind = "workflow" /\ entry = Entry(config.type, def)
    BY <1>1, <1>2 DEF LoadInv, LoadOK, File
  <1>4. here \in DOMAIN load.files /\ here \in Nat /\ Len(load.files) \in Nat
    BY <1>3 DEF LoadInv, LoadTyped
  <1>5. /\ load'.stage = load.stage /\ load'.files = load.files /\ load'.next = here + 1
        /\ load'.registered = Append(load.registered, here) /\ load'.removed = load.removed
        /\ DOMAIN load' = LoadFields
    BY <1>1 DEF LoadInv, LoadTyped, LoadFields
  <1>6. /\ load'.registered \in Seq(Nat) /\ Done' = Done \cup {here}
    BY <1>4, <1>5, OneMoreRegistered DEF Done, LoadInv, LoadTyped
  <1>7. config.type \in WorkflowTypes /\ def.type = config.type
    BY <1>4, ParsedType DEF LoadInv, LoadTyped
  <1>8. /\ workflows'[config.type] = def /\ DOMAIN workflows' = WorkflowTypes
        /\ \A t \in WorkflowTypes : t # config.type => workflows'[t] = workflows[t]
    <2>1. entry.type = config.type /\ entry.def = def
      BY <1>3 DEF Entry
    <2> HIDE DEF def, config
    <2> QED
      BY <1>1, <1>7, <2>1 DEF LoadInv, LoadTyped
  <1>9. LoadTyped'
    BY <1>2, <1>3, <1>4, <1>5, <1>6, <1>8 DEF LoadInv, LoadTyped
  <1>10. LoadOK'
    <2>1. 1 .. here + 1 - 1 = (1 .. here - 1) \cup {here}
      BY <1>4
    <2>2. Before(load.next)' = Before(here) \cup {here} /\ SoundTo(load.next)'
      BY <1>3, <1>5, <2>1 DEF Before, SoundTo
    <2> QED
      BY <1>2, <1>3, <1>5, <1>6, <2>2 DEF LoadOK
  <1>11. ASSUME NEW n \in Done' PROVE Kept(n)'
    <2>1. CASE n = here
      <3> HIDE DEF here
      <3> QED
        BY <1>5, <1>7, <1>8, <2>1 DEF Kept, here
    <2>2. CASE n # here
      <3>1. n \in Done /\ Kept(n) /\ n < here /\ n \in DOMAIN load.files
        BY <1>3, <1>4, <1>6, <2>2 DEF LoadInv, Before
      <3> DEFINE mine == load.files[n].config.type
      <3>2. ParseWorkflowFromJSON(load.files[n].config).type = mine /\ mine \in WorkflowTypes
        BY <3>1, ParsedType DEF LoadInv, LoadTyped
      <3>3. CASE mine = config.type
        <4>1. here \in Done' /\ here > n /\ load'.files[here].config.type = mine
          BY <1>5, <1>6, <3>1, <3>3, <1>4
        <4> QED
          BY <1>5, <3>2, <4>1 DEF Kept
      <3>4. CASE mine # config.type
        <4>1. workflows'[mine] = workflows[mine]
          BY <1>8, <3>2, <3>4
        <4> QED
          BY <1>5, <1>6, <3>1, <3>2, <4>1 DEF Kept
      <3> QED
        BY <3>3, <3>4
    <2> QED
      BY <2>1, <2>2
  <1> QED
    BY <1>9, <1>10, <1>11 DEF LoadInv

LEMMA EndLoadKeeps == ASSUME LoadInv, EndLoad PROVE LoadInv'
  <1> DEFINE stage == IF load.registered = <<>> THEN "failed" ELSE "loaded"
  <1>1. /\ load.stage = "scanning" /\ load.next > Len(load.files)
        /\ load' = [load EXCEPT !.stage = stage] /\ UNCHANGED <<workflows, write>>
    BY DEF EndLoad
  <1>2. /\ load'.stage = stage /\ load'.files = load.files /\ load'.next = load.next
        /\ load'.registered = load.registered /\ load'.removed = load.removed
        /\ DOMAIN load' = LoadFields
    BY <1>1 DEF LoadInv, LoadTyped, LoadFields
  <1>3. load.next = Len(load.files) + 1 /\ load.next \in Nat /\ Len(load.files) \in Nat
    BY <1>1 DEF LoadInv, LoadTyped
  <1>4. SoundTo(load.next) /\ Done = Before(load.next) /\ write = {}
    BY <1>1, <1>3 DEF LoadInv, LoadOK
  <1>5. /\ Done' = Done /\ Before(load.next)' = Before(load.next) /\ SoundTo(load.next)'
    BY <1>2, <1>4 DEF Before, SoundTo, Done
  <1>6. LoadTyped'
    BY <1>1, <1>2 DEF LoadInv, LoadTyped
  <1>7. LoadOK'
    BY <1>1, <1>2, <1>3, <1>4, <1>5 DEF LoadOK
  <1>8. \A n \in Done' : Kept(n)'
    BY <1>1, <1>2, <1>5 DEF Kept, LoadInv
  <1> QED
    BY <1>6, <1>7, <1>8 DEF LoadInv

LEMMA UnregisterKeeps ==
  ASSUME LoadInv, NEW t \in WorkflowTypes, UnregisterWorkflow(t) PROVE LoadInv'
  <1>1. /\ load.stage = "loaded" /\ write' = {Entry(t, NotFound)}
        /\ UNCHANGED <<workflows, load>>
    BY DEF UnregisterWorkflow
  <1>2. \A entry \in write' : entry.type \in WorkflowTypes
    BY <1>1 DEF Entry
  <1>3. /\ Done' = Done /\ Before(load.next)' = Before(load.next)
        /\ SoundTo(load.next) <=> SoundTo(load.next)'
    BY <1>1 DEF Before, SoundTo, Done
  <1> QED
    BY <1>1, <1>2, <1>3 DEF LoadInv, LoadTyped, LoadOK, Kept

LEMMA EndUnregisterKeeps == ASSUME LoadInv, EndUnregister PROVE LoadInv'
  <1>1. PICK entry \in write :
          /\ workflows' = [workflows EXCEPT ![entry.type] = NotFound]
          /\ load' = [load EXCEPT !.removed = @ \cup {entry.type}]
    BY DEF EndUnregister
  <1>2. load.stage = "loaded" /\ write' = {}
    BY DEF EndUnregister
  <1>3. /\ load'.stage = load.stage /\ load'.files = load.files /\ load'.next = load.next
        /\ load'.registered = load.registered
        /\ load'.removed = load.removed \cup {entry.type} /\ DOMAIN load' = LoadFields
    BY <1>1 DEF LoadInv, LoadTyped, LoadFields
  <1>4. entry.type \in WorkflowTypes /\ DOMAIN workflows' = WorkflowTypes
        /\ \A t \in WorkflowTypes : t # entry.type => workflows'[t] = workflows[t]
    BY <1>1, <1>2 DEF LoadInv, LoadOK, LoadTyped
  <1>5. /\ Done' = Done /\ Before(load.next)' = Before(load.next)
        /\ SoundTo(load.next) => SoundTo(load.next)'
    BY <1>3 DEF Before, SoundTo, Done
  <1>6. LoadTyped'
    BY <1>3, <1>4 DEF LoadInv, LoadTyped
  <1>7. LoadOK'
    BY <1>2, <1>3, <1>5 DEF LoadInv, LoadOK
  <1>8. ASSUME NEW n \in Done' PROVE Kept(n)'
    <2> DEFINE def == ParseWorkflowFromJSON(load.files[n].config)
    <2>1. Kept(n) /\ n \in DOMAIN load.files
      <3>1. Done = Before(load.next) /\ load.next = Len(load.files) + 1
        BY <1>2 DEF LoadInv, LoadOK
      <3> QED
        BY <1>5, <3>1 DEF Before, LoadInv, LoadTyped
    <2>2. def.type \in WorkflowTypes
      BY <2>1, ParsedType DEF LoadInv, LoadTyped
    <2> HIDE DEF def
    <2>3. CASE def.type = entry.type
      BY <1>3, <2>3 DEF Kept, def
    <2>4. CASE def.type # entry.type
      <3>1. workflows'[def.type] = workflows[def.type]
        BY <1>4, <2>2, <2>4
      <3> QED
        BY <1>3, <1>5, <2>1, <3>1 DEF Kept, def
    <2> QED
      BY <2>3, <2>4
  <1> QED
    BY <1>6, <1>7, <1>8 DEF LoadInv

LEMMA NextKeepsLoad == LoadInv /\ [Next]_vars => LoadInv'
  <1> SUFFICES ASSUME LoadInv, [Next]_vars PROVE LoadInv'
    OBVIOUS
  <1>1. ASSUME UNCHANGED <<workflows, write, load>> PROVE LoadInv'
    <2>1. /\ Done' = Done /\ Before(load.next)' = Before(load.next) /\ File' = File
          /\ SoundTo(load.next) <=> SoundTo(load.next)'
      BY <1>1 DEF Before, SoundTo, Done, File
    <2>2. LoadTyped' /\ LoadOK'
      BY <1>1, <2>1 DEF LoadInv, LoadTyped, LoadOK
    <2>3. \A n \in Done' : Kept(n)'
      BY <1>1, <2>1 DEF LoadInv, Kept
    <2> QED
      BY <2>2, <2>3 DEF LoadInv
  <1>2. CASE UNCHANGED vars
    BY <1>1, <1>2 DEF vars
  <1>3. CASE Throw
    BY <1>1, <1>3 DEF Throw
  <1>4. ASSUME NEW filter, OnBeforeTransition(filter) PROVE LoadInv'
    BY <1>1, <1>4 DEF OnBeforeTransition
  <1>5. ASSUME NEW c, BeginCall(c) \/ CopyListeners(c) \/ CallListener(c) \/ Move(c)
        PROVE  LoadInv'
    BY <1>1, <1>5 DEF BeginCall, CopyListeners, CallListener, Move
  <1> QED
    BY <1>2, <1>3, <1>4, <1>5, ReadDirKeeps, LoadFileKeeps, RegisterKeeps, EndLoadKeeps,
       UnregisterKeeps, EndUnregisterKeeps DEF Next

\* loader.go:44-75: a load that returns nil has registered every workflow file of the
\* directory, one that fails those before the first broken file; of two files for one type
\* the later one stays.
THEOREM LoadsInOrder == Spec => []DirectoriesLoadInOrder
  <1>1. Init => LoadInv
    <2> SUFFICES ASSUME Init PROVE LoadInv
      OBVIOUS
    <2>1. /\ load.stage = "idle" /\ load.files = <<>> /\ load.next = 1
          /\ load.registered = <<>> /\ load.removed = {} /\ write = {}
          /\ DOMAIN workflows = WorkflowTypes /\ DOMAIN load = LoadFields
      BY DEF Init, LoadFields
    <2>2. Done = {}
      BY <2>1, NothingRegistered DEF Done
    <2> QED
      BY <2>1, <2>2 DEF LoadInv, LoadTyped, LoadOK
  <1>2. LoadInv => DirectoriesLoadInOrder
    <2> SUFFICES ASSUME LoadInv PROVE DirectoriesLoadInOrder
      OBVIOUS
    <2>1. DOMAIN load.files = 1 .. Len(load.files) /\ Len(load.files) \in Nat
          /\ load.next \in 1 .. Len(load.files) + 1
          /\ load.stage \in {"idle", "scanning", "loaded", "failed"}
      BY DEF LoadInv, LoadTyped
    <2>2. load.registered = <<>> => Done = {}
      BY NothingRegistered DEF Done
    <2>3. Done = {} \/ (SoundTo(load.next) /\ Done = Before(load.next))
      BY <2>1, <2>2 DEF LoadInv, LoadOK
    <2>4. Done \subseteq Good /\ \A n \in Good : (\E m \in Done : n < m) => n \in Done
      BY <2>1, <2>3 DEF Good, Before, SoundTo
    <2>5. load.stage = "loaded" => Done = Good /\ Has("workflow") /\ ~Has("broken")
      <3> SUFFICES ASSUME load.stage = "loaded"
                   PROVE  Done = Good /\ Has("workflow") /\ ~Has("broken")
        OBVIOUS
      <3>1. /\ SoundTo(load.next) /\ Done = Before(load.next) /\ load.registered # <<>>
            /\ load.next = Len(load.files) + 1
        BY DEF LoadInv, LoadOK
      <3>2. Done = Good /\ ~Has("broken")
        BY <2>1, <3>1 DEF Good, Before, SoundTo, Has
      <3>3. Done # {}
        <4>1. load.registered \in Seq(Nat)
          BY DEF LoadInv, LoadTyped
        <4>2. 1 \in DOMAIN load.registered
          BY <3>1, <4>1
        <4> QED
          BY <4>2 DEF Done, Range
      <3> QED
        BY <2>1, <3>2, <3>3 DEF Good, Has
    <2>6. load.stage = "failed" => Done = {} \/ (Done = Good /\ Has("broken"))
      <3> SUFFICES ASSUME load.stage = "failed", Done # {} PROVE Done = Good /\ Has("broken")
        OBVIOUS
      <3>1. /\ SoundTo(load.next) /\ Done = Before(load.next)
            /\ load.next <= Len(load.files) /\ load.files[load.next].kind = "broken"
        BY <2>2 DEF LoadInv, LoadOK, File
      <3> QED
        BY <2>1, <3>1 DEF Good, Before, SoundTo, Has
    <2>7. \A n \in Done : Kept(n)
      BY DEF LoadInv
    <2> QED
      BY <2>4, <2>5, <2>6, <2>7 DEF DirectoriesLoadInOrder, Done, Kept
  <1> QED
    BY <1>1, <1>2, NextKeepsLoad, PTL DEF Spec

-----------------------------------------------------------------------------
(* The listeners. *)

Question == [listener : Nat, got : Seq(Nat), returned : Seq(Nat)]

Heard(asked) == {asked[k].listener : k \in DOMAIN asked}

InOrder(asked) ==
  \A k \in DOMAIN asked : \A j \in 1 .. k - 1 : asked[j].listener < asked[k].listener

Chained(asked) ==
  \A k \in DOMAIN asked : asked[k].got = IF k = 1 THEN NoData ELSE asked[k - 1].returned

LastData(asked) == IF asked = <<>> THEN NoData ELSE asked[Len(asked)].returned

\* One more listener is asked, a later one, and on the data of the last one.
LEMMA AskOneMore ==
  ASSUME NEW asked \in Seq(Question), NEW x \in Question,
         InOrder(asked), Chained(asked), x.got = LastData(asked),
         \A m \in Heard(asked) : m < x.listener
  PROVE  /\ Append(asked, x) \in Seq(Question)
         /\ Heard(Append(asked, x)) = Heard(asked) \cup {x.listener}
         /\ InOrder(Append(asked, x)) /\ Chained(Append(asked, x))
         /\ LastData(Append(asked, x)) = x.returned
  <1> DEFINE new == Append(asked, x)
             n == Len(asked)
  <1>1. /\ new \in Seq(Question) /\ n \in Nat /\ Len(new) = n + 1 /\ new # <<>>
        /\ DOMAIN asked = 1 .. n /\ DOMAIN new = 1 .. (n + 1)
        /\ new[n + 1] = x /\ \A k \in 1 .. n : new[k] = asked[k]
    OBVIOUS
  <1>2. n = 0 <=> asked = <<>>
    OBVIOUS
  <1>3. \A k \in 1 .. n : asked[k].listener \in Heard(asked)
    BY <1>1 DEF Heard
  <1> HIDE DEF new, n
  <1>4. Heard(new) = Heard(asked) \cup {x.listener}
    BY <1>1 DEF Heard
  <1>5. InOrder(new)
    <2> SUFFICES ASSUME NEW k \in 1 .. n + 1, NEW j \in 1 .. k - 1
                 PROVE  new[j].listener < new[k].listener
      BY <1>1 DEF InOrder
    <2>1. j \in 1 .. n /\ new[j] = asked[j]
      BY <1>1
    <2>2. CASE k = n + 1
      BY <1>1, <1>3, <2>1, <2>2
    <2>3. CASE k \in 1 .. n
      BY <1>1, <2>1, <2>3 DEF InOrder
    <2> QED
      BY <1>1, <2>2, <2>3
  <1>6. Chained(new)
    <2> SUFFICES ASSUME NEW k \in 1 .. n + 1
                 PROVE  new[k].got = IF k = 1 THEN NoData ELSE new[k - 1].returned
      BY <1>1 DEF Chained
    <2>1. CASE k = n + 1
      <3>1. x.got = IF n = 0 THEN NoData ELSE asked[n].returned
        BY <1>2 DEF LastData, n
      <3> QED
        BY <1>1, <2>1, <3>1
    <2>2. CASE k \in 1 .. n
      <3>1. asked[k].got = IF k = 1 THEN NoData ELSE asked[k - 1].returned
        BY <1>1, <2>2 DEF Chained
      <3>2. k # 1 => k - 1 \in 1 .. n
        BY <1>1, <2>2
      <3> QED
        BY <1>1, <2>2, <3>1, <3>2
    <2> QED
      BY <1>1, <2>1, <2>2
  <1>7. LastData(new) = x.returned
    BY <1>1 DEF LastData
  <1> QED
    BY <1>1, <1>4, <1>5, <1>6, <1>7 DEF new

\* The listeners that answer to the call k.
Matches(k, n) == listeners[n][1] \in {Blank, k.row.type} /\ listeners[n][2] \in {Blank, k.action}

RowFields == {"type", "step", "state"}

Walked(k) ==
  /\ k.copied \in 0 .. Len(listeners) /\ k.next \in 1 .. k.copied + 1
  /\ k.asked \in Seq(Question) /\ k.input \in Seq(Nat)
  /\ Heard(k.asked) = {n \in 1 .. k.next - 1 : Matches(k, n)}
  /\ InOrder(k.asked) /\ Chained(k.asked) /\ k.input = LastData(k.asked)
  /\ k.stage = "moved" => k.next > k.copied

AskOK(k) ==
  /\ DOMAIN k = DOMAIN NewCall
  /\ k.stage \in {"emitBefore", "listening"} => DOMAIN k.row = RowFields
  /\ k.stage = "emitBefore" => k.next = 1 /\ k.asked = <<>> /\ k.input = NoData
  /\ k.stage \in {"listening", "blocked", "moved"} => Walked(k)

ListenInv ==
  /\ listeners \in Seq(Filters)
  /\ DOMAIN call = Calls /\ \A c \in Calls : AskOK(call[c])

LEMMA OneAskSet ==
  ASSUME ListenInv, NEW c \in Calls, NEW k, Set(c, k), AskOK(k), UNCHANGED listeners
  PROVE  ListenInv'
  <1>1. DOMAIN call' = Calls /\ call'[c] = k /\ \A d \in Calls : d # c => call'[d] = call[d]
    BY DEF ListenInv, Set
  <1>2. \A d \in Calls : AskOK(call'[d])
    BY <1>1 DEF ListenInv
  <1>3. \A d \in Calls : AskOK(call[d])'
    BY <1>2 DEF AskOK, Walked, Matches
  <1> QED
    BY <1>1, <1>3 DEF ListenInv

LEMMA BeginCallAsks == ASSUME ListenInv, NEW c \in Calls, BeginCall(c) PROVE ListenInv'
  <1>1. PICK t \in WorkflowTypes, a \in ActionNames, step \in StepNames, state \in StateNames :
          \E def \in GetWorkflow(t) :
            LET acts == IF def = NotFound THEN {} ELSE GetTransitionAction(def, step, a)
                row == [type |-> t, step |-> step, state |-> state]
            IN  Set(c, [NewCall EXCEPT !.stage = IF acts = {} THEN "refused" ELSE "emitBefore",
                                       !.from = row, !.row = row, !.action = a, !.act = acts,
                                       !.known = GetWorkflow(t)])
    BY DEF BeginCall
  <1>2. PICK def \in GetWorkflow(t) :
          LET acts == IF def = NotFound THEN {} ELSE GetTransitionAction(def, step, a)
              row == [type |-> t, step |-> step, state |-> state]
          IN  Set(c, [NewCall EXCEPT !.stage = IF acts = {} THEN "refused" ELSE "emitBefore",
                                     !.from = row, !.row = row, !.action = a, !.act = acts,
                                     !.known = GetWorkflow(t)])
    BY <1>1
  <1> DEFINE acts == IF def = NotFound THEN {} ELSE GetTransitionAction(def, step, a)
             row == [type |-> t, step |-> step, state |-> state]
             stage == IF acts = {} THEN "refused" ELSE "emitBefore"
             known == GetWorkflow(t)
             k == [NewCall EXCEPT !.stage = stage, !.from = row, !.row = row, !.action = a,
                                  !.act = acts, !.known = known]
  <1>3. Set(c, k)
    BY <1>2
  <1>4. DOMAIN row = RowFields
    BY DEF RowFields
  <1>5. stage \in {"refused", "emitBefore"}
    OBVIOUS
  <1>6. /\ k.stage = stage /\ k.row = row /\ DOMAIN k = DOMAIN NewCall
        /\ k.next = 1 /\ k.asked = <<>> /\ k.input = NoData
    <2> HIDE DEF stage, acts, row, known
    <2> QED
      BY DEF NewCall
  <1> HIDE DEF stage, acts, row, known, k
  <1>7. AskOK(k)
    BY <1>4, <1>5, <1>6 DEF AskOK
  <1>8. UNCHANGED listeners
    BY DEF BeginCall
  <1> QED
    BY <1>3, <1>7, <1>8, OneAskSet

LEMMA CopyListenersAsks == ASSUME ListenInv, NEW c \in Calls, CopyListeners(c) PROVE ListenInv'
  <1> DEFINE k == [call[c] EXCEPT !.stage = "listening", !.copied = Len(listeners)]
  <1>1. Set(c, k) /\ call[c].stage = "emitBefore" /\ AskOK(call[c]) /\ UNCHANGED listeners
    BY DEF CopyListeners, ListenInv
  <1>2. /\ k.stage = "listening" /\ k.copied = Len(listeners) /\ k.next = 1
        /\ k.asked = <<>> /\ k.input = NoData /\ k.row = call[c].row
        /\ DOMAIN k = DOMAIN NewCall /\ DOMAIN k.row = RowFields
    BY <1>1 DEF AskOK, NewCall
  <1> HIDE DEF k
  <1>3. Walked(k)
    <2>1. Len(listeners) \in Nat
      BY DEF ListenInv
    <2>2. /\ <<>> \in Seq(Question) /\ NoData \in Seq(Nat) /\ Heard(<<>>) = {}
          /\ InOrder(<<>>) /\ Chained(<<>>) /\ LastData(<<>>) = NoData
      BY DEF NoData, Heard, InOrder, Chained, LastData
    <2>3. 1 .. 1 - 1 = {}
      OBVIOUS
    <2>4. Heard(k.asked) = {n \in 1 .. k.next - 1 : Matches(k, n)}
      BY <1>2, <2>2, <2>3
    <2> QED
      BY <1>2, <2>1, <2>2, <2>4 DEF Walked
  <1>4. AskOK(k)
    BY <1>2, <1>3 DEF AskOK
  <1> QED
    BY <1>1, <1>4, OneAskSet

LEMMA CallListenerAsks == ASSUME ListenInv, NEW c \in Calls, CallListener(c) PROVE ListenInv'
  <1> DEFINE old == call[c]
             n == old.next
  <1>1. /\ old.stage = "listening" /\ n <= old.copied /\ UNCHANGED listeners
        /\ AskOK(old) /\ Walked(old)
    BY DEF CallListener, ListenInv, AskOK
  <1>2. /\ n \in Nat /\ n \in 1 .. old.copied /\ old.copied \in 0 .. Len(listeners)
        /\ n + 1 \in 1 .. old.copied + 1
        /\ old.asked \in Seq(Question) /\ old.input \in Seq(Nat)
        /\ Heard(old.asked) = {m \in 1 .. n - 1 : Matches(old, m)}
        /\ InOrder(old.asked) /\ Chained(old.asked) /\ old.input = LastData(old.asked)
    <2>1. Len(listeners) \in Nat
      BY DEF ListenInv
    <2> QED
      BY <1>1, <2>1 DEF Walked
  <1>3. 1 .. n + 1 - 1 = (1 .. n - 1) \cup {n}
    BY <1>2
  <1>4. matchesBeforeFilter(listeners[n], c) <=> Matches(old, n)
    BY DEF matchesBeforeFilter, Matches
  <1>5. ASSUME ~Matches(old, n), Set(c, [old EXCEPT !.next = n + 1]) PROVE ListenInv'
    <2> DEFINE k == [old EXCEPT !.next = n + 1]
    <2>1. /\ k.stage = "listening" /\ k.copied = old.copied /\ k.next = n + 1
          /\ k.asked = old.asked /\ k.input = old.input /\ k.row = old.row
          /\ k.action = old.action /\ DOMAIN k = DOMAIN NewCall /\ DOMAIN k.row = RowFields
      BY <1>1 DEF AskOK, NewCall
    <2>2. Set(c, k)
      BY <1>5
    <2> HIDE DEF k, old, n
    <2>3. \A m : Matches(k, m) <=> Matches(old, m)
      BY <2>1 DEF Matches
    <2>4. Heard(k.asked) = {m \in 1 .. k.next - 1 : Matches(k, m)}
      BY <1>2, <1>3, <1>5, <2>1, <2>3
    <2>5. Walked(k)
      BY <1>2, <2>1, <2>4 DEF Walked
    <2>6. AskOK(k)
      BY <2>1, <2>5 DEF AskOK
    <2> QED
      BY <1>1, <2>2, <2>6, OneAskSet
  <1>6. ASSUME Matches(old, n), NEW data \in Returned(n, old.input),
               NEW stage \in {"listening", "blocked"},
               Set(c, [old EXCEPT !.stage = stage, !.next = n + 1, !.input = data,
                                  !.asked = Append(@, Asked(n, old.input, data))])
        PROVE  ListenInv'
    <2> DEFINE x == Asked(n, old.input, data)
               asked == Append(old.asked, x)
               k == [old EXCEPT !.stage = stage, !.next = n + 1, !.input = data,
                                !.asked = asked]
    <2>1. /\ k.stage = stage /\ k.copied = old.copied /\ k.next = n + 1
          /\ k.asked = asked /\ k.input = data /\ k.row = old.row
          /\ k.action = old.action /\ DOMAIN k = DOMAIN NewCall /\ DOMAIN k.row = RowFields
      <3> HIDE DEF asked
      <3> QED
        BY <1>1 DEF AskOK, NewCall
    <2>2. Set(c, k)
      BY <1>6
    <2>3. data \in Seq(Nat)
      <3>1. NoData \in Seq(Nat)
        BY DEF NoData
      <3> DEFINE input == old.input
      <3>2. input \in Seq(Nat) /\ n \in Nat
        BY <1>2
      <3>3. data = Append(input, n) \/ data = NoData
        BY <1>6 DEF Returned
      <3> HIDE DEF input, n
      <3>4. Append(input, n) \in Seq(Nat)
        BY <3>2, AppendedIsLonger
      <3> QED
        BY <3>1, <3>3, <3>4
    <2>4. x \in Question /\ x.listener = n /\ x.got = old.input /\ x.returned = data
      BY <1>2, <2>3 DEF Asked, Question
    <2>5. \A m \in Heard(old.asked) : m < n
      BY <1>2
    <2> HIDE DEF k, old, n, x
    <2>6. /\ asked \in Seq(Question) /\ Heard(asked) = Heard(old.asked) \cup {n}
          /\ InOrder(asked) /\ Chained(asked) /\ LastData(asked) = data
      BY <1>2, <2>4, <2>5, AskOneMore
    <2>7. \A m : Matches(k, m) <=> Matches(old, m)
      BY <2>1 DEF Matches
    <2> HIDE DEF asked
    <2>8. Heard(k.asked) = {m \in 1 .. k.next - 1 : Matches(k, m)}
      BY <1>2, <1>3, <1>6, <2>1, <2>6, <2>7
    <2>9. Walked(k)
      BY <1>2, <2>1, <2>3, <2>6, <2>8 DEF Walked
    <2>10. AskOK(k)
      BY <2>1, <2>9 DEF AskOK
    <2> QED
      BY <1>1, <2>2, <2>10, OneAskSet
  <1> QED
    BY <1>4, <1>5, <1>6 DEF CallListener

LEMMA MoveAsks == ASSUME ListenInv, NEW c \in Calls, Move(c) PROVE ListenInv'
  <1>1. PICK act \in call[c].act :
          Set(c, [call[c] EXCEPT !.stage = "moved", !.row = Advance(@, act)])
    BY DEF Move
  <1> DEFINE old == call[c]
             row == Advance(old.row, act)
             k == [old EXCEPT !.stage = "moved", !.row = row]
  <1>2. /\ old.stage = "listening" /\ old.next > old.copied /\ UNCHANGED listeners
        /\ AskOK(old) /\ Walked(old) /\ DOMAIN old.row = RowFields
    BY DEF Move, ListenInv, AskOK
  <1>3. row.type = old.row.type
    BY <1>2 DEF Advance, RowFields
  <1>4. /\ k.stage = "moved" /\ k.copied = old.copied /\ k.next = old.next
        /\ k.asked = old.asked /\ k.input = old.input /\ k.row = row
        /\ k.action = old.action /\ DOMAIN k = DOMAIN NewCall
    <2> HIDE DEF row
    <2> QED
      BY <1>2 DEF AskOK, NewCall
  <1>5. Set(c, k)
    BY <1>1
  <1> HIDE DEF k, old, row
  <1>6. \A m : Matches(k, m) <=> Matches(old, m)
    BY <1>3, <1>4 DEF Matches
  <1>7. Walked(k)
    BY <1>2, <1>4, <1>6 DEF Walked
  <1>8. AskOK(k)
    BY <1>4, <1>7 DEF AskOK
  <1> QED
    BY <1>2, <1>5, <1>8, OneAskSet

\* A listener registered later changes nothing of the list that a call has copied.
LEMMA RegisteringAsks == ASSUME ListenInv, NEW filter \in Filters, OnBeforeTransition(filter)
                         PROVE  ListenInv'
  <1>1. listeners' = Append(listeners, filter) /\ UNCHANGED call
    BY DEF OnBeforeTransition
  <1>2. /\ listeners' \in Seq(Filters) /\ Len(listeners) \in Nat
        /\ Len(listeners') = Len(listeners) + 1
        /\ \A n \in 1 .. Len(listeners) : listeners'[n] = listeners[n]
    BY <1>1 DEF ListenInv
  <1>3. ASSUME NEW c \in Calls PROVE AskOK(call[c])'
    <2> DEFINE k == call[c]
    <2>1. AskOK(k) /\ k' = k
      BY <1>1 DEF ListenInv
    <2>2. ASSUME Walked(k) PROVE Walked(k)'
      <3>1. \A n \in 1 .. k.next - 1 : Matches(k, n) <=> Matches(k, n)'
        BY <1>1, <1>2, <2>2 DEF Walked, Matches
      <3> QED
        BY <1>1, <1>2, <2>1, <2>2, <3>1 DEF Walked
    <2> QED
      BY <2>1, <2>2, <1>1 DEF AskOK
  <1> QED
    BY <1>1, <1>2, <1>3 DEF ListenInv

LEMMA NextAsks == ListenInv /\ [Next]_vars => ListenInv'
  <1> SUFFICES ASSUME ListenInv, [Next]_vars PROVE ListenInv'
    OBVIOUS
  <1>1. ASSUME UNCHANGED <<listeners, call>> PROVE ListenInv'
    BY <1>1 DEF ListenInv, AskOK, Walked, Matches
  <1>2. CASE UNCHANGED vars
    BY <1>1, <1>2 DEF vars
  <1>3. CASE ReadDir \/ LoadFile \/ RegisterWorkflow \/ EndLoad \/ EndUnregister \/ Throw
    BY <1>1, <1>3 DEF ReadDir, LoadFile, RegisterWorkflow, EndLoad, EndUnregister, Throw
  <1>4. ASSUME NEW t, UnregisterWorkflow(t) PROVE ListenInv'
    BY <1>1, <1>4 DEF UnregisterWorkflow
  <1> QED
    BY <1>2, <1>3, <1>4, BeginCallAsks, CopyListenersAsks, CallListenerAsks, MoveAsks,
       RegisteringAsks DEF Next

\* events.go:114-139: the listeners called are the matching ones among those registered
\* when the list was copied, each once, in order and without a gap, each on the data of the
\* one before; a call moves on only after all of them, with the data of the last one.
THEOREM ListenersEnrich == Spec => []ListenersEnrichInOrder
  <1>1. Init => ListenInv
    BY DEF Init, ListenInv, AskOK, NewCall
  <1>2. ListenInv => ListenersEnrichInOrder
    <2> SUFFICES ASSUME ListenInv, NEW c \in Calls,
                        call[c].stage \in {"listening", "blocked", "moved"}
                 PROVE  LET asked == call[c].asked
                            called == {asked[k].listener : k \in DOMAIN asked}
                            matching == {n \in 1 .. call[c].copied :
                                           matchesBeforeFilter(listeners[n], c)}
                        IN  /\ called \subseteq matching
                            /\ \A n \in matching :
                                 call[c].stage = "moved" \/ (\E m \in called : n < m)
                                   => n \in called
                            /\ \A k \in DOMAIN asked :
                                 /\ \A j \in 1 .. k - 1 : asked[j].listener < asked[k].listener
                                 /\ asked[k].got = IF k = 1 THEN NoData ELSE asked[k - 1].returned
                            /\ call[c].input = IF asked = <<>> THEN NoData
                                                               ELSE asked[Len(asked)].returned
      BY DEF ListenersEnrichInOrder
    <2> DEFINE k == call[c]
               called == Heard(k.asked)
    <2>1. Walked(k)
      BY DEF ListenInv, AskOK
    <2>2. Len(listeners) \in Nat
      BY DEF ListenInv
    <2>3. /\ k.copied \in Nat /\ k.next \in 1 .. k.copied + 1
          /\ called = {n \in 1 .. k.next - 1 : Matches(k, n)}
          /\ k.stage = "moved" => k.next > k.copied
      BY <2>1, <2>2 DEF Walked
    <2>4. \A n : matchesBeforeFilter(listeners[n], c) <=> Matches(k, n)
      BY DEF matchesBeforeFilter, Matches
    <2>5. /\ InOrder(k.asked) /\ Chained(k.asked) /\ k.input = LastData(k.asked)
      BY <2>1 DEF Walked
    <2> DEFINE matching == {n \in 1 .. k.copied : matchesBeforeFilter(listeners[n], c)}
    <2>6. called \subseteq matching
      BY <2>3, <2>4
    <2>7. \A n \in matching : k.stage = "moved" \/ (\E m \in called : n < m) => n \in called
      BY <2>3, <2>4
    <2> QED
      BY <2>5, <2>6, <2>7 DEF Heard, InOrder, Chained, LastData
  <1> QED
    BY <1>1, <1>2, NextAsks, PTL DEF Spec
==============================================================================
