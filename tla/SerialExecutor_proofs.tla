----------------------- MODULE SerialExecutor_proofs -----------------------
(***************************************************************************)
(* Proofs about SerialExecutor, for any workflow, any process generators   *)
(* and any outcomes of the jobs.                                           *)
(***************************************************************************)
EXTENDS SerialExecutor, FiniteSetTheorems, TLAPS

-----------------------------------------------------------------------------
(* The generator and the callback of WorkflowJob. *)

LEMMA NumStepsFacts ==
    /\ NumSteps \in Nat \ {0}
    /\ \A S \in SUBSET Steps : Cardinality(S) = NumSteps => S = Steps
<1>1. NumSteps \in Nat /\ NumSteps # 0
    BY StepsAssumption, FS_CardinalityType, FS_EmptySet DEF NumSteps
<1>2. ASSUME NEW S \in SUBSET Steps, Cardinality(S) = NumSteps PROVE S = Steps
    BY StepsAssumption, <1>2, FS_Subset DEF NumSteps
<1> QED BY <1>1, <1>2

LEMMA WfInitTypes == WfInit => WfTypeOK
<1> SUFFICES ASSUME WfInit PROVE WfTypeOK
    OBVIOUS
<1> USE DEF WfInit
<1>1. order \in [1..NumSteps -> Steps]
    BY DEF Bijection, Injection
<1>2. gidx \in 1..(NumSteps + 1)
    BY NumStepsFacts
<1>3. final \in Seq({"success"} \cup Failures)
    OBVIOUS
<1> QED BY <1>1, <1>2, <1>3 DEF WfTypeOK, Jobs, Status

LEMMA StatusTypes ==
    ASSUME NEW r \in Results, NEW old \in {"success"} \cup Failures,
           processStatus \in {"success"} \cup Failures
    PROVE  /\ Stored(r) \in Status \cup {"none"}
           /\ Stored(r) = "success" \/ Judged(r) \in Failures
           /\ Judged(r) \in {"success"} \cup Failures
    BY DEF Results, Stored, Judged, Status, Done, Failures

LEMMA DoOutputCallbackTypes ==
    ASSUME processStatus \in {"success"} \cup Failures,
           final \in Seq({"success"} \cup Failures), DoOutputCallback
    PROVE  /\ processStatus' \in {"success"} \cup Failures
           /\ didCallback' \in BOOLEAN
           /\ final' \in Seq({"success"} \cup Failures)
<1>1. processStatus' \in {"success"} \cup Failures /\ didCallback' = TRUE
      /\ final' = Append(final, processStatus')
    BY DEF DoOutputCallback, Failures
<1>2. \A S : \A q \in Seq(S) : \A e \in S : Append(q, e) \in Seq(S)
    OBVIOUS
<1> QED BY <1>1, <1>2

LEMMA GenTypes ==
    ASSUME WfTypeOK, GenRun \/ GenResume,
           gpc = "made" \/ (gpc = "yield" /\ offer \in Steps) => gidx <= NumSteps
    PROVE  /\ WfTypeOK'
           /\ gpc' = "made" \/ (gpc' = "yield" /\ offer' \in Steps) =>
                  gidx' <= NumSteps
<1> DEFINE Place == gpc = "made" \/ (gpc = "yield" /\ offer \in Steps) =>
                        gidx <= NumSteps
<1> SUFFICES WfTypeOK' /\ Place'
    OBVIOUS
<1>0. NumSteps \in Nat \ {0} /\ NoJob \notin Steps
    BY NumStepsFacts, StepsAssumption DEF Jobs
<1> USE DEF docVars, stepVars, cbVars, WfTypeOK
<1>1. CASE GenLoop
    <2>1. /\ madeProgress' \in BOOLEAN /\ gpc' = "step" /\ gidx' = 1
          /\ UNCHANGED <<stepVars, processStatus, didCallback, final, offer>>
        BY <1>1 DEF GenLoop
    <2> QED BY <1>0, <2>1
<1>2. CASE GenForEnd
    BY <1>0, <1>2 DEF GenForEnd
<1>3. CASE GenNotReady
    BY <1>0, <1>3 DEF GenNotReady
<1>4. CASE GenMake
    BY <1>0, <1>4 DEF GenMake, CanMake, CurrentStep
<1>5. CASE GenMakeRaises
    BY <1>0, <1>5 DEF GenMakeRaises, CanMake, CurrentStep, Failures
<1>6. CASE GenSkip
    <2>1. /\ CanMake /\ gidx' = gidx + 1 /\ madeProgress' = TRUE
          /\ submitted' = submitted \cup {CurrentStep}
          /\ state' = [state EXCEPT ![CurrentStep] = "skipped"]
          /\ completed' = completed \cup {CurrentStep}
          /\ UNCHANGED <<docVars, gpc, offer>>
        BY <1>6 DEF GenSkip
    <2>2. DoOutputCallback \/ UNCHANGED <<processStatus, didCallback, final>>
        BY <1>6 DEF GenSkip
    <2>3. /\ processStatus' \in {"success"} \cup Failures
          /\ didCallback' \in BOOLEAN
          /\ final' \in Seq({"success"} \cup Failures)
        BY <2>2, DoOutputCallbackTypes
    <2>4. Place'
        BY <2>1 DEF CanMake
    <2> QED BY <1>0, <2>1, <2>3, <2>4 DEF CanMake, CurrentStep, Status, Done
<1>7. CASE GenYieldJob
    <2>1. madeProgress' \in BOOLEAN
        BY <1>7 DEF GenYieldJob
    <2>2. /\ gpc = "made" /\ UNCHANGED <<stepVars, processStatus, didCallback, final>>
          /\ \/ gpc' = "step" /\ gidx' = gidx + 1 /\ UNCHANGED offer
             \/ gpc' = "yield" /\ offer' = CurrentStep /\ UNCHANGED gidx
        BY <1>7 DEF GenYieldJob
    <2> QED BY <1>0, <2>1, <2>2 DEF CurrentStep, Jobs
<1>8. CASE GenSum
    BY <1>0, <1>8 DEF GenSum
<1>9. CASE GenExit
    <2>1. gpc' = "end" /\ UNCHANGED <<stepVars, madeProgress, gidx, offer>>
        BY <1>9 DEF GenExit
    <2>2. DoOutputCallback \/ UNCHANGED <<processStatus, didCallback, final>>
        BY <1>9 DEF GenExit
    <2>3. /\ processStatus' \in {"success"} \cup Failures
          /\ didCallback' \in BOOLEAN
          /\ final' \in Seq({"success"} \cup Failures)
        BY <2>2, DoOutputCallbackTypes
    <2> QED BY <2>1, <2>3
<1>10. CASE GenResume
    BY <1>0, <1>10 DEF GenResume
<1> QED BY <1>1, <1>2, <1>3, <1>4, <1>5, <1>6, <1>7, <1>8, <1>9, <1>10
        DEF GenRun

-----------------------------------------------------------------------------
(* Types, and where run_jobs and the generator are together. *)
Flow == TypeOK /\ Positions

LEMMA InitFlow == Init => Flow
<1> SUFFICES ASSUME Init PROVE Flow
    OBVIOUS
<1>1. WfTypeOK
    BY WfInitTypes DEF Init
<1>2. TypeOK
    BY <1>1 DEF Init, TypeOK
<1>3. \A s \in Steps : \E i \in 1..NumSteps : order[i] = s
    BY DEF Init, WfInit, Bijection, Surjection
<1>4. Positions
    BY <1>3, StepsAssumption DEF Init, WfInit, Positions, Jobs
<1> QED BY <1>2, <1>4 DEF Flow

LEMMA GenerateFlow ==
    ASSUME Flow, Generate \/ MakeRaises
    PROVE  Flow'
<1>0. /\ GenRun /\ epc = "next" /\ UNCHANGED <<epc, part, embedded, order>>
      /\ WfTypeOK /\ part' \in [Steps -> {"embedded", "created", "over"}]
      /\ embedded' \in [Steps -> EmbeddedResults \cup {"none"}]
    BY DEF Generate, MakeRaises, GenRun, serVars, Flow, TypeOK, GenLoop,
           GenForEnd, GenNotReady, GenMake, GenMakeRaises, GenSkip, GenYieldJob,
           GenSum, GenExit, stepVars, docVars
<1>1. /\ WfTypeOK'
      /\ gpc' = "made" \/ (gpc' = "yield" /\ offer' \in Steps) =>
             gidx' <= NumSteps
    BY <1>0, GenTypes DEF Flow, Positions
<1>2. ended' \in [Steps -> Results \cup {"none", "broken"}]
    BY DEF Generate, MakeRaises, serVars, Flow, TypeOK
<1>3. TypeOK'
    BY <1>0, <1>1, <1>2 DEF TypeOK
<1>4. CASE GenYieldJob \/ GenSum
    <2>1. gpc' = "yield" /\ offer' \in Steps => offer' = CurrentStep'
        BY <1>4, <1>0, StepsAssumption DEF GenYieldJob, GenSum, CurrentStep, Jobs
    <2>2. gpc' = "yield" /\ offer' = NoJob => completed' # Steps
        <3>1. CASE GenYieldJob
            <4>1. gpc = "made" => CurrentStep \in Steps
                BY <1>0, NumStepsFacts DEF Flow, Positions, WfTypeOK, CurrentStep
            <4> QED BY <4>1, <3>1, StepsAssumption DEF GenYieldJob, Jobs
        <3>2. CASE GenSum
            BY <3>2, NumStepsFacts DEF GenSum, NumSteps, stepVars
        <3> QED BY <1>4, <3>1, <3>2
    <2> QED BY <1>0, <1>1, <1>3, <2>1, <2>2 DEF Flow, Positions
<1>5. CASE ~(GenYieldJob \/ GenSum)
    <2>1. gpc' # "yield"
        BY <1>0, <1>5 DEF GenRun, GenLoop, GenForEnd, GenNotReady, GenMake,
                     GenMakeRaises, GenSkip, GenExit, CanMake
    <2> QED BY <1>0, <1>1, <1>3, <2>1 DEF Flow, Positions
<1> QED BY <1>4, <1>5

\* The steps between a yield and the next.
LEMMA RunFlow ==
    ASSUME Flow, Take \/ Leave \/ Run \/ RunRaises \/ RunEmbedded \/ PgRefuse
    PROVE  Flow'
<1>0. UNCHANGED wfVars
    BY DEF Take, Leave, Run, RunRaises, RunEmbedded, PgRefuse
<1> USE <1>0 DEF Flow, wfVars, stepVars, docVars, cbVars, genVars
<1>1. WfTypeOK'
    BY DEF TypeOK, WfTypeOK
<1>2. /\ CurrentStep' = CurrentStep
      /\ \A s \in Steps : \E i \in 1..NumSteps : order'[i] = s
    BY DEF CurrentStep, Positions
<1>3. CASE Take
    BY <1>1, <1>2, <1>3, StepsAssumption
       DEF Take, TypeOK, WfTypeOK, Positions, Jobs, AtEmbedded
<1>4. CASE Leave
    BY <1>1, <1>2, <1>4 DEF Leave, TypeOK, Positions
<1>5. CASE Run
    <2>1. offer \in Steps /\ gpc = "yield" /\ ~AtEmbedded(offer)
        BY <1>5 DEF Run, Positions
    <2>2. ended' \in [Steps -> Results \cup {"none", "broken"}]
        BY <1>5, <2>1, SerialAssumption DEF Run, TypeOK
    <2> QED BY <1>1, <1>2, <1>5, <2>1, <2>2 DEF Run, TypeOK, Positions, AtEmbedded
<1>6. CASE RunRaises
    BY <1>1, <1>2, <1>6 DEF RunRaises, TypeOK, Positions
<1>7. CASE RunEmbedded
    <2>1. offer \in Steps /\ gpc = "yield"
        BY <1>7 DEF RunEmbedded, Positions
    <2>2. embedded' \in [Steps -> EmbeddedResults \cup {"none"}]
        BY <1>7, <2>1, SerialAssumption DEF RunEmbedded, TypeOK
    <2> QED BY <1>1, <1>2, <1>7, <2>1, <2>2
            DEF RunEmbedded, TypeOK, Positions, Jobs
<1>8. CASE PgRefuse
    <2>1. offer \in Steps /\ gpc = "yield" /\ part'[offer] = "over"
        BY <1>8 DEF PgRefuse, PgResumed, Positions, TypeOK
    <2>2. /\ ended' \in [Steps -> Results \cup {"none", "broken"}]
          /\ part' \in [Steps -> {"embedded", "created", "over"}]
        BY <1>8, <2>1 DEF PgRefuse, TypeOK, Results, EmbeddedResults
    <2> QED BY <1>1, <1>2, <1>8, <2>1, <2>2
            DEF PgRefuse, TypeOK, Positions, AtEmbedded
<1> QED BY <1>3, <1>4, <1>5, <1>6, <1>7, <1>8

LEMMA CallbackFlow ==
    ASSUME Flow, Callback \/ Record \/ Finish, \A s \in Steps : StepSound(s)
    PROVE  Flow'
<1> USE DEF Flow, stepVars, docVars, cbVars, genVars
<1>1. /\ gpc = "yield" /\ offer \in Steps /\ ~AtEmbedded(offer)
      /\ UNCHANGED <<order, part, embedded, ended, genVars>>
      /\ epc' \in {"record", "finish", "resume"}
    BY DEF Callback, Record, Finish, StoreOutput, RecordStatus, ReceiveFinish,
           Positions
<1>2. CASE Callback
    <2>1. ended[offer] \in Results
        BY <1>1, <1>2 DEF Callback, StepSound
    <2>2. Stored(ended[offer]) \in Status \cup {"none"}
        BY <2>1 DEF Results, Stored, Status, Done, Failures
    <2>3. WfTypeOK'
        BY <1>2, <2>2 DEF Callback, StoreOutput, TypeOK, WfTypeOK
    <2> QED BY <1>1, <1>2, <2>3
            DEF Callback, StoreOutput, TypeOK, Positions, AtEmbedded, CurrentStep
<1>3. CASE Record
    <2>1. ended[offer] \in Results
        BY <1>1, <1>3 DEF Record, StepSound
    <2>2. Judged(ended[offer]) \in {"success"} \cup Failures
        BY <2>1 DEF Results, Judged, Failures
    <2>3. processStatus' \in {"success"} \cup Failures /\ completed' \subseteq Steps
        BY <1>1, <1>3, <2>2 DEF Record, RecordStatus, TypeOK, WfTypeOK
    <2>4. WfTypeOK'
        BY <1>3, <2>3 DEF Record, RecordStatus, TypeOK, WfTypeOK
    <2> QED BY <1>1, <1>3, <2>4, StepsAssumption
            DEF Record, TypeOK, Positions, AtEmbedded, CurrentStep, Jobs
<1>4. CASE Finish
    <2>1. /\ DoOutputCallback \/ UNCHANGED <<processStatus, didCallback, final>>
          /\ UNCHANGED <<stepVars, madeProgress, genVars>>
        BY <1>4 DEF Finish, ReceiveFinish
    <2>2. WfTypeOK'
        BY <2>1, DoOutputCallbackTypes DEF TypeOK, WfTypeOK
    <2> QED BY <1>1, <1>4, <2>1, <2>2
            DEF Finish, TypeOK, Positions, AtEmbedded, CurrentStep, Jobs
<1> QED BY <1>2, <1>3, <1>4

LEMMA ResumeFlow ==
    ASSUME Flow, Resume \/ PgPoll \/ PgBroken \/ PgCreated
    PROVE  Flow'
<1>0. /\ gpc = "yield" /\ epc' = "next" /\ offer \in Jobs
      /\ WfTypeOK /\ (offer \in Steps => gidx <= NumSteps)
      /\ NumSteps \in Nat \ {0}
    BY NumStepsFacts
       DEF Flow, Positions, TypeOK, Resume, PgPoll, PgBroken, PgCreated, PgResumed
<1>1. CASE Resume \/ PgPoll
    <2>1. GenResume /\ UNCHANGED <<embedded, ended, part>>
        BY <1>1 DEF Resume, PgPoll
    <2>2. WfTypeOK'
        BY <1>0, <2>1, GenTypes
    <2>3. gpc' \in {"step", "loop"} /\ UNCHANGED order
        BY <2>1 DEF GenResume, stepVars, docVars
    <2> QED BY <1>0, <2>1, <2>2, <2>3 DEF Flow, TypeOK, Positions
<1>2. CASE PgBroken
    <2>1. offer \in Steps
        BY <1>2 DEF PgBroken, PgResumed
    <2>2. /\ WfTypeOK' /\ UNCHANGED order /\ gpc' = "step"
        BY <1>0, <1>2, <2>1 DEF PgBroken, WfTypeOK, stepVars, docVars, Failures
    <2>3. TypeOK'
        BY <1>2, <2>1, <2>2 DEF PgBroken, Flow, TypeOK
    <2> QED BY <1>0, <2>2, <2>3 DEF Flow, Positions
<1>3. CASE PgCreated
    <2>1. offer \in Steps
        BY <1>3 DEF PgCreated, PgResumed
    <2>2. /\ WfTypeOK' /\ UNCHANGED <<order, gidx>> /\ gpc' = "made"
        BY <1>0, <1>3, <2>1 DEF PgCreated, WfTypeOK, stepVars, docVars, cbVars
    <2>3. TypeOK'
        BY <1>3, <2>1, <2>2 DEF PgCreated, Flow, TypeOK
    <2> QED BY <1>0, <2>1, <2>2, <2>3 DEF Flow, Positions
<1> QED BY <1>1, <1>2, <1>3

-----------------------------------------------------------------------------
(***************************************************************************)
(* The steps.  "x" is the step a group of actions is about.                *)
(***************************************************************************)

\* A step that only passes on what was made.
LEMMA SameSteps ==
    ASSUME \A s \in Steps : StepSound(s),
           UNCHANGED <<submitted, completed, state, embedded>>,
           NEW s \in Steps, Ahead(s)' => Ahead(s), ~Recording(s)',
           epc' # "callback",
           Ahead(s)' /\ epc' \in {"next", "run"} => embedded[s] \in {"none", "success"},
           Ahead(s)' => ended'[s] = "none",
           s \notin submitted => Unmade(s)',
           processStatus' = "success" => processStatus = "success"
    PROVE  StepSound(s)'
    BY DEF StepSound, Recording

LEMMA GenerateSteps ==
    ASSUME Flow, Flow', \A s \in Steps : StepSound(s), Generate \/ MakeRaises
    PROVE  \A s \in Steps : StepSound(s)'
<1> SUFFICES ASSUME NEW s \in Steps PROVE StepSound(s)'
    OBVIOUS
<1> DEFINE c == CurrentStep
<1>0. /\ epc = "next" /\ epc' = "next" /\ StepSound(s)
      /\ ~Recording(s) /\ ~Recording(s)' /\ UNCHANGED <<part, embedded>>
      /\ state \in [Steps -> Status \cup {"none"}]
      /\ ended \in [Steps -> Results \cup {"none", "broken"}]
      /\ processStatus \in {"success"} \cup Failures
    BY DEF Generate, MakeRaises, serVars, Recording, Flow, TypeOK, WfTypeOK
<1>1. UNCHANGED order
    BY DEF Generate, MakeRaises, GenLoop, GenForEnd, GenNotReady, GenMake,
           GenMakeRaises, GenSkip, GenYieldJob, GenSum, GenExit, stepVars, docVars
<1>2. gpc \in {"step", "made"} /\ gidx <= NumSteps => c \in Steps
    BY NumStepsFacts DEF Flow, TypeOK, WfTypeOK, CurrentStep
<1>3. CASE UNCHANGED serVars /\ (GenLoop \/ GenForEnd \/ GenNotReady)
    BY <1>0, <1>3, SameSteps
       DEF Ahead, StepSound, Unmade, GenLoop, GenForEnd, GenNotReady, stepVars, cbVars,
           serVars
<1>4. CASE UNCHANGED serVars /\ GenSum
    <2>1. Ahead(s)' => FALSE
        BY <1>4, <1>0, StepsAssumption DEF Ahead, GenSum, Jobs
    <2> QED BY <1>0, <1>4, <2>1, SameSteps
            DEF StepSound, Unmade, GenSum, stepVars, cbVars, serVars
<1>5. CASE UNCHANGED serVars /\ GenExit
    <2>1. processStatus' = "success" => processStatus = "success"
        BY <1>5 DEF GenExit, DoOutputCallback, cbVars
    <2> QED BY <1>0, <1>5, <2>1, SameSteps
            DEF Ahead, StepSound, Unmade, GenExit, stepVars, serVars
<1>6. CASE UNCHANGED serVars /\ GenYieldJob
    <2>1. /\ gpc = "made" /\ (Ahead(s)' => s = c)
          /\ UNCHANGED <<stepVars, processStatus, ended>>
        BY <1>0, <1>6 DEF Ahead, GenYieldJob, serVars
    <2>2. Ahead(s)' => Ahead(s)
        BY <2>1 DEF Ahead
    <2> QED BY <1>0, <2>1, <2>2, SameSteps DEF StepSound, Unmade, stepVars
<1>7. CASE UNCHANGED serVars /\ GenMake
    <2>1. /\ c \in Steps /\ c \notin submitted /\ MakeError[c] = "none"
          /\ submitted' = submitted \cup {c} /\ gpc' = "made" /\ UNCHANGED gidx
          /\ UNCHANGED <<completed, state, processStatus, ended>>
        BY <1>2, <1>7 DEF GenMake, CanMake, stepVars, cbVars, serVars
    <2>2. Ahead(s)' => s = c
        BY <1>1, <2>1 DEF Ahead, CurrentStep
    <2>3. CASE s = c
        <3>1. /\ c \notin completed /\ state[c] = "none" /\ embedded[c] = "none"
              /\ ended[c] = "none"
            BY <1>0, <2>1, <2>3 DEF StepSound, Unmade, EarlyErrors
        <3> QED BY <1>0, <2>1, <2>3, <3>1 DEF StepSound, Unmade
    <2>4. CASE s # c
        BY <1>0, <2>1, <2>2, <2>4 DEF StepSound, Unmade
    <2> QED BY <2>3, <2>4
<1>8. CASE MakeRaises
    <2>1. /\ c \in Steps /\ c \notin submitted /\ MakeError[c] # "none"
          /\ submitted' = IF MakeError[c] \in LateErrors
                          THEN submitted \cup {c} ELSE submitted
          /\ completed' = IF MakeError[c] \in Crashes
                          THEN completed \cup {c} ELSE completed
          /\ gpc' = "step" /\ processStatus' = "permanentFail"
          /\ UNCHANGED state /\ ended' = [ended EXCEPT ![c] = "broken"]
        BY <1>2, <1>8 DEF MakeRaises, GenMakeRaises, CanMake
    <2>2. MakeError[c] \in EarlyErrors \cup LateErrors
        BY <2>1, StepsAssumption
    <2>3. ~Ahead(s)'
        BY <2>1 DEF Ahead
    <2> QED BY <1>0, <2>1, <2>2, <2>3 DEF StepSound, Unmade
<1>9. CASE UNCHANGED serVars /\ GenSkip
    <2>1. /\ c \in Steps /\ c \notin submitted /\ MakeError[c] \notin EarlyErrors
          /\ submitted' = submitted \cup {c} /\ completed' = completed \cup {c}
          /\ state' = [state EXCEPT ![c] = "skipped"]
          /\ gpc' = "step" /\ UNCHANGED ended
          /\ processStatus' = "success" => processStatus = "success"
        BY <1>2, <1>9 DEF GenSkip, CanMake, serVars, DoOutputCallback
    <2>2. ~Ahead(s)'
        BY <2>1 DEF Ahead
    <2> QED BY <1>0, <2>1, <2>2 DEF StepSound, Unmade, Done
<1> QED BY <1>3, <1>4, <1>5, <1>6, <1>7, <1>8, <1>9 DEF Generate

LEMMA RunSteps ==
    ASSUME Flow, \A s \in Steps : StepSound(s),
           Take \/ Leave \/ Run \/ RunRaises \/ RunEmbedded \/ PgRefuse
    PROVE  \A s \in Steps : StepSound(s)'
<1> SUFFICES ASSUME NEW s \in Steps PROVE StepSound(s)'
    OBVIOUS
<1>0. /\ UNCHANGED <<submitted, completed, state, processStatus, order, gidx,
                     gpc, offer>>
      /\ StepSound(s)
    BY DEF Take, Leave, Run, RunRaises, RunEmbedded, PgRefuse, wfVars, stepVars,
           docVars, cbVars, genVars
<1>1. CurrentStep' = CurrentStep
    BY <1>0 DEF CurrentStep
<1>2. CASE Take \/ Leave \/ RunRaises
    <2>1. /\ UNCHANGED <<part, embedded, ended>>
          /\ epc' \in {"resume", "stuck", "run", "done", "raised"}
          /\ epc' = "run" => epc = "next"
          /\ epc' = "resume" => offer = WfJob
        BY <1>2 DEF Take, Leave, RunRaises
    <2>2. epc' \in {"resume", "stuck", "raised", "done"} => (Ahead(s)' => Ahead(s))
        BY <1>0, <1>1, <2>1, StepsAssumption DEF Ahead
    <2>3. Ahead(s)' => Ahead(s) /\ epc # "callback"
        BY <1>0, <1>1, <1>2, <2>1, <2>2, StepsAssumption
           DEF Ahead, Take, Leave, RunRaises, Positions, Flow
    <2>4. ~Recording(s)'
        BY <2>1 DEF Recording
    <2>5. Ahead(s)' /\ epc' = "run" => embedded[s] \in {"none", "success"}
        BY <1>0, <2>1, <2>3 DEF StepSound, Unmade
    <2>6. Ahead(s)' => ended[s] = "none"
        BY <1>0, <2>3 DEF StepSound, Unmade
    <2> QED BY <1>0, <2>1, <2>3, <2>4, <2>5, <2>6, SameSteps DEF StepSound, Unmade
<1>3. CASE Run \/ RunEmbedded \/ PgRefuse
    <2>1. /\ gpc = "yield" /\ offer \in Steps /\ Ahead(offer)
          /\ epc \in {"run", "resume"} /\ StepSound(offer)
          /\ ended \in [Steps -> Results \cup {"none", "broken"}]
          /\ embedded \in [Steps -> EmbeddedResults \cup {"none"}]
        BY <1>3 DEF Run, RunEmbedded, PgRefuse, PgResumed, Flow, TypeOK,
                    Positions, Ahead
    <2>2. /\ offer \in submitted /\ offer \notin completed
          /\ MakeError[offer] = "none" /\ state[offer] = "none"
        BY <2>1 DEF StepSound, Unmade
    <2>3. /\ \A t \in Steps \ {offer} : /\ ended'[t] = ended[t]
                                        /\ embedded'[t] = embedded[t]
          /\ epc' \in {"callback", "resume"}
          /\ epc' = "callback" => ended'[offer] \in Results
          /\ epc' = "resume" => UNCHANGED ended /\ epc = "run"
        <3>1. CASE Run
            BY <2>1, <3>1, SerialAssumption DEF Run
        <3>2. CASE RunEmbedded
            BY <2>1, <3>2 DEF RunEmbedded
        <3>3. CASE PgRefuse
            BY <2>1, <3>3 DEF PgRefuse, Results, Failures
        <3> QED BY <1>3, <3>1, <3>2, <3>3
    <2>4. ~Recording(s)' /\ (Ahead(s)' => s = offer)
        BY <1>0, <2>1, <2>3 DEF Recording, Ahead
    <2> QED BY <1>0, <2>1, <2>2, <2>3, <2>4 DEF StepSound, Unmade
<1> QED BY <1>2, <1>3

LEMMA CallbackSteps ==
    ASSUME Flow, \A s \in Steps : StepSound(s), Callback \/ Record \/ Finish
    PROVE  \A s \in Steps : StepSound(s)'
<1> SUFFICES ASSUME NEW s \in Steps PROVE StepSound(s)'
    OBVIOUS
<1>0. /\ gpc = "yield" /\ offer \in Steps /\ ~AtEmbedded(offer)
      /\ UNCHANGED <<submitted, order, part, embedded, ended, genVars>>
      /\ epc' \in {"record", "finish", "resume"}
      /\ StepSound(s) /\ StepSound(offer)
    BY DEF Callback, Record, Finish, StoreOutput, RecordStatus, ReceiveFinish,
           Positions, Flow, stepVars, docVars, cbVars, genVars
<1>1. ~Ahead(s)'
    BY <1>0 DEF Ahead, AtEmbedded, genVars
<1>2. CASE Callback
    <2>1. /\ Ahead(offer) /\ epc = "callback"
          /\ state' = [state EXCEPT ![offer] = Stored(ended[offer])]
          /\ state \in [Steps -> Status \cup {"none"}]
          /\ epc' = "record" /\ UNCHANGED <<completed, processStatus>>
        BY <1>0, <1>2 DEF Callback, StoreOutput, Ahead, cbVars, Flow, TypeOK,
                          WfTypeOK
    <2>2. /\ offer \in submitted /\ offer \notin completed
          /\ MakeError[offer] = "none" /\ ended[offer] \in Results
        BY <1>0, <2>1 DEF StepSound, Unmade
    <2>3. Recording(s)' => s = offer
        BY <1>0 DEF Recording, genVars
    <2> QED BY <1>0, <1>1, <2>1, <2>2, <2>3 DEF StepSound, Unmade, genVars
<1>3. CASE Record
    <2>1. /\ Recording(offer) /\ epc' = "finish" /\ UNCHANGED state
          /\ completed' = completed \cup {offer}
          /\ processStatus' = IF Overwrites(processStatus, Judged(ended[offer]))
                              THEN Judged(ended[offer]) ELSE processStatus
        BY <1>0, <1>3 DEF Record, RecordStatus, Recording
    <2>2. /\ offer \in submitted /\ ended[offer] \in Results
          /\ state[offer] = Stored(ended[offer])
        BY <1>0, <2>1 DEF StepSound, Unmade, Recording
    <2>3. processStatus' = "success" =>
              processStatus = "success" /\ Stored(ended[offer]) \in Done
        BY <2>1, <2>2 DEF Overwrites, Judged, Stored, Results, Done, Failures
    <2>4. ~Recording(s)'
        BY <2>1 DEF Recording
    <2> QED BY <1>0, <1>1, <2>1, <2>2, <2>3, <2>4 DEF StepSound, Unmade, genVars
<1>4. CASE Finish
    <2>1. /\ epc' = "resume" /\ UNCHANGED <<completed, state>>
          /\ processStatus' = "success" => processStatus = "success"
        BY <1>4 DEF Finish, ReceiveFinish, DoOutputCallback, stepVars
    <2>2. ~Recording(s)'
        BY <2>1 DEF Recording
    <2> QED BY <1>0, <1>1, <2>1, <2>2 DEF StepSound, Unmade, genVars
<1> QED BY <1>2, <1>3, <1>4

LEMMA ResumeSteps ==
    ASSUME Flow, \A s \in Steps : StepSound(s),
           Resume \/ PgPoll \/ PgBroken \/ PgCreated
    PROVE  \A s \in Steps : StepSound(s)'
<1> SUFFICES ASSUME NEW s \in Steps PROVE StepSound(s)'
    OBVIOUS
<1>0. /\ gpc = "yield" /\ epc' = "next" /\ epc = "resume" /\ StepSound(s)
      /\ UNCHANGED <<submitted, completed, state, embedded, order>>
      /\ ended \in [Steps -> Results \cup {"none", "broken"}]
    BY DEF Resume, PgPoll, PgBroken, PgCreated, PgResumed, Positions, Flow,
           GenResume, stepVars, docVars, TypeOK
<1>1. ~Recording(s)'
    BY <1>0 DEF Recording
<1>2. CASE Resume \/ PgPoll
    <2>1. gpc' \in {"step", "loop"} /\ UNCHANGED <<ended, processStatus>>
        BY <1>2 DEF Resume, PgPoll, GenResume, cbVars
    <2>2. ~Ahead(s)'
        BY <2>1 DEF Ahead
    <2> QED BY <1>0, <1>1, <2>1, <2>2, SameSteps DEF StepSound, Unmade
<1>3. CASE PgBroken
    <2>1. /\ gpc' = "step" /\ processStatus' = "permanentFail" /\ offer \in Steps
          /\ ended' = [ended EXCEPT ![offer] = "broken"] /\ Ahead(offer)
        BY <1>0, <1>3 DEF PgBroken, PgResumed, Ahead
    <2>2. offer \in submitted
        BY <2>1 DEF StepSound, Unmade
    <2>3. ~Ahead(s)'
        BY <2>1 DEF Ahead
    <2> QED BY <1>0, <1>1, <2>1, <2>2, <2>3, SameSteps DEF StepSound, Unmade
<1>4. CASE PgCreated
    <2>1. /\ gpc' = "made" /\ UNCHANGED <<gidx, ended, processStatus>>
          /\ offer \in Steps /\ Ahead(offer) /\ embedded[offer] = "success"
          /\ offer = CurrentStep
        BY <1>0, <1>4
           DEF PgCreated, PgResumed, Ahead, cbVars, Positions, Flow
    <2>2. Ahead(s)' => s = offer
        BY <1>0, <2>1 DEF Ahead, CurrentStep
    <2>3. Ahead(s)' => Ahead(s) /\ embedded[s] = "success"
        BY <2>1, <2>2
    <2> QED BY <1>0, <1>1, <2>1, <2>3, SameSteps DEF StepSound, Unmade
<1> QED BY <1>2, <1>3, <1>4

-----------------------------------------------------------------------------
(* The report and the verdict. *)
Sound == \A s \in Steps : StepSound(s)

LEMMA AllCompleted ==
    ASSUME Flow
    PROVE  /\ ~(Cardinality(completed) < NumSteps) => completed = Steps
           /\ Cardinality(completed) = NumSteps <=> completed = Steps
<1>1. /\ completed \subseteq Steps
      /\ Cardinality(completed) \in Nat /\ Cardinality(completed) <= NumSteps
    BY StepsAssumption, FS_Subset, FS_CardinalityType
       DEF Flow, TypeOK, WfTypeOK, NumSteps
<1>2. NumSteps \in Nat
    BY NumStepsFacts
<1>3. Cardinality(completed) = NumSteps => completed = Steps
    BY <1>1, NumStepsFacts
<1> QED BY <1>1, <1>2, <1>3 DEF NumSteps

\* Nothing was reported while a job is under way.
LEMMA NoReport ==
    ASSUME Sound, ReportSound, gpc # "end", NEW s \in Steps,
           Ahead(s) \/ Recording(s)
    PROVE  final = <<>> /\ ~didCallback
    BY DEF Sound, StepSound, ReportSound

\* The report, when there was none before.
LEMMA ReportFacts ==
    ASSUME Flow, DoOutputCallback, final = <<>>
    PROVE  /\ final' # <<>> /\ Len(final') = 1 /\ final'[1] = processStatus'
           /\ processStatus' = "success" => processStatus = "success" /\ ~outputsFail
           /\ outputsFail => processStatus' = "permanentFail"
           /\ didCallback' = TRUE
    BY DEF DoOutputCallback

\* Everything ReportSound looks at stays, but for epc and gpc.
LEMMA SameReport ==
    ASSUME ReportSound,
           UNCHANGED <<outputsFail, completed, processStatus, didCallback, final>>,
           gpc # "end", gpc' \notin {"exit", "end"}, epc' # "finish",
           epc' \in {"stuck", "raised"} => final = <<>>
    PROVE  ReportSound'
    BY DEF ReportSound

LEMMA GenerateReport ==
    ASSUME Flow, Flow', Sound, ReportSound, VerdictSound, Generate \/ MakeRaises
    PROVE  ReportSound'
<1> DEFINE c == CurrentStep
<1>0. /\ epc = "next" /\ epc' = "next" /\ gpc # "end" /\ UNCHANGED outputsFail
      /\ final \in Seq({"success"} \cup Failures)
    BY DEF Generate, MakeRaises, serVars, GenLoop, GenForEnd, GenNotReady,
           GenMake, GenMakeRaises, GenSkip, GenYieldJob, GenSum, GenExit,
           CanMake, stepVars, docVars, Flow, TypeOK, WfTypeOK
<1>1. gpc = "step" /\ gidx <= NumSteps => c \in Steps
    BY NumStepsFacts DEF Flow, TypeOK, WfTypeOK, CurrentStep
<1>2. CASE GenLoop \/ GenForEnd \/ GenNotReady \/ GenMake \/ GenYieldJob
    BY <1>0, <1>2, SameReport
       DEF GenLoop, GenForEnd, GenNotReady, GenMake, GenYieldJob, stepVars, cbVars
<1>3. CASE GenSum
    <2>1. /\ UNCHANGED <<completed, processStatus, didCallback, final>>
          /\ gpc' # "end"
          /\ gpc' = "exit" /\ processStatus = "success" => completed = Steps
        BY <1>3, AllCompleted DEF GenSum, stepVars, cbVars
    <2> QED BY <1>0, <2>1 DEF ReportSound
<1>4. CASE GenExit
    <2>1. /\ gpc = "exit" /\ gpc' = "end" /\ UNCHANGED completed
        BY <1>4 DEF GenExit, stepVars
    <2>2. CASE didCallback
        <3>1. UNCHANGED <<processStatus, didCallback, final>>
            BY <1>4, <2>2 DEF GenExit
        <3> QED BY <1>0, <2>1, <2>2, <3>1 DEF ReportSound
    <2>3. CASE ~didCallback
        <3>1. DoOutputCallback /\ final = <<>>
            BY <1>4, <2>3 DEF GenExit, ReportSound
        <3>2. processStatus = "success" => completed = Steps
            BY <2>1 DEF ReportSound
        <3>3. /\ final' # <<>> /\ didCallback' = TRUE /\ Len(final') = 1
              /\ final'[1] = processStatus'
              /\ outputsFail => processStatus' = "permanentFail"
              /\ processStatus' = "success" => completed' = Steps
            BY <2>1, <3>1, <3>2, ReportFacts
        <3> QED BY <1>0, <2>1, <3>3 DEF ReportSound
    <2> QED BY <2>2, <2>3
<1>5. CASE GenSkip
    <2>1. /\ c \in Steps /\ c \notin submitted /\ MakeError[c] \notin EarlyErrors
          /\ completed' = completed \cup {c} /\ gpc = "step" /\ gpc' = "step"
        BY <1>1, <1>5 DEF GenSkip, CanMake
    <2>2. final = <<>> /\ ~didCallback
        BY <2>1 DEF Sound, StepSound, ReportSound
    <2>3. CASE Cardinality(completed') = NumSteps
        <3>1. DoOutputCallback
            BY <1>5, <2>3 DEF GenSkip
        <3>2. completed' = Steps
            <4>1. completed' \subseteq Steps
                BY DEF Flow, TypeOK, WfTypeOK
            <4> QED BY <2>3, <4>1, NumStepsFacts
        <3> QED BY <1>0, <2>1, <2>2, <3>1, <3>2, ReportFacts DEF ReportSound
    <2>4. CASE Cardinality(completed') # NumSteps
        <3>1. UNCHANGED <<processStatus, didCallback, final>>
            BY <1>5, <2>4 DEF GenSkip
        <3> QED BY <1>0, <2>1, <2>2, <3>1 DEF ReportSound
    <2> QED BY <2>3, <2>4
<1>6. CASE MakeRaises
    <2>1. /\ c \in Steps /\ c \notin submitted /\ processStatus' = "permanentFail"
          /\ completed' \in {completed, completed \cup {c}}
          /\ UNCHANGED <<didCallback, final, gpc>> /\ gpc = "step"
        BY <1>1, <1>6 DEF MakeRaises, GenMakeRaises, CanMake
    <2>2. final # <<>> => /\ completed = Steps /\ processStatus = "permanentFail"
        BY <2>1 DEF Sound, StepSound, ReportSound, VerdictSound
    <2>3. completed = Steps => completed' = Steps
        BY <2>1
    <2> QED BY <1>0, <2>1, <2>2, <2>3 DEF ReportSound
<1> QED BY <1>2, <1>3, <1>4, <1>5, <1>6 DEF Generate

LEMMA AdvanceReport ==
    ASSUME Flow, Flow', Sound, ReportSound, VerdictSound, Advance
    PROVE  ReportSound'
<1> USE DEF Flow
<1>1. CASE Generate \/ MakeRaises
    BY <1>1, GenerateReport
<1>2. CASE Take \/ Run \/ RunRaises \/ RunEmbedded \/ PgRefuse
    <2>1. /\ UNCHANGED <<outputsFail, completed, processStatus, didCallback, final,
                         gpc>>
          /\ epc' # "finish" /\ gpc = "yield"
        BY <1>2 DEF Take, Run, RunRaises, RunEmbedded, PgRefuse, PgResumed, wfVars,
                    stepVars, docVars, cbVars, genVars, Positions
    <2>2. epc' \in {"stuck", "raised"} => final = <<>>
        <3>1. CASE Take /\ epc' = "stuck"
            <4>1. offer = NoJob /\ completed # Steps
                BY <2>1, <3>1 DEF Take, Positions
            <4> QED BY <2>1, <4>1 DEF ReportSound
        <3>2. CASE RunRaises
            <4>1. offer \in Steps /\ Ahead(offer)
                BY <2>1, <3>2 DEF RunRaises, Positions, Ahead
            <4> QED BY <2>1, <4>1, NoReport
        <3> QED BY <1>2, <3>1, <3>2 DEF Take, Run, RunEmbedded, PgRefuse
    <2> QED BY <2>1, <2>2, SameReport
<1>3. CASE Leave
    BY <1>3 DEF Leave, ReportSound, wfVars, stepVars, docVars, cbVars, genVars
<1>4. CASE Callback
    <2>1. gpc = "yield" /\ epc' = "record"
        BY <1>4 DEF Callback, Positions
    <2> QED BY <1>4, <2>1, SameReport
            DEF Callback, StoreOutput, docVars, cbVars, genVars
<1>5. CASE Record
    <2>1. gpc = "yield" /\ offer \in Steps /\ Recording(offer) /\ epc' = "finish"
        BY <1>5 DEF Record, Positions, Recording
    <2>2. final = <<>> /\ ~didCallback
        BY <2>1, NoReport
    <2> QED BY <1>5, <2>1, <2>2
            DEF Record, RecordStatus, docVars, genVars, ReportSound
<1>6. CASE Finish
    <2>1. /\ gpc = "yield" /\ epc = "finish" /\ epc' = "resume"
          /\ UNCHANGED <<outputsFail, completed, gpc>>
        BY <1>6 DEF Finish, ReceiveFinish, Positions, stepVars, docVars, genVars
    <2>2. final = <<>> /\ ~didCallback
        BY <2>1 DEF ReportSound
    <2>3. CASE completed = Steps
        <3>1. DoOutputCallback
            BY <1>6, <2>3, AllCompleted DEF Finish, ReceiveFinish
        <3>2. /\ final' # <<>> /\ didCallback' = TRUE /\ Len(final') = 1
              /\ final'[1] = processStatus'
              /\ outputsFail => processStatus' = "permanentFail"
            BY <2>2, <3>1, ReportFacts
        <3> QED BY <2>1, <2>3, <3>2 DEF ReportSound
    <2>4. CASE completed # Steps
        <3>1. UNCHANGED <<processStatus, didCallback, final>>
            BY <1>6, <2>4, AllCompleted DEF Finish, ReceiveFinish
        <3> QED BY <2>1, <2>2, <3>1, SameReport
    <2> QED BY <2>3, <2>4
<1>7. CASE Resume \/ PgPoll \/ PgCreated
    <2>1. /\ gpc = "yield" /\ epc' = "next" /\ gpc' \in {"step", "loop", "made"}
          /\ UNCHANGED <<outputsFail, completed, processStatus, didCallback, final>>
        BY <1>7 DEF Resume, PgPoll, PgCreated, PgResumed, GenResume, stepVars,
                    docVars, cbVars, Positions
    <2> QED BY <2>1, SameReport
<1>8. CASE PgBroken
    <2>1. /\ gpc = "yield" /\ epc' = "next" /\ gpc' = "step" /\ offer \in Steps
          /\ Ahead(offer) /\ UNCHANGED <<didCallback, final>>
        BY <1>8 DEF PgBroken, PgResumed, Ahead, Positions
    <2>2. final = <<>> /\ ~didCallback
        BY <2>1, NoReport
    <2> QED BY <2>1, <2>2 DEF ReportSound
<1> QED BY <1>1, <1>2, <1>3, <1>4, <1>5, <1>6, <1>7, <1>8 DEF Advance, PgStep

-----------------------------------------------------------------------------
\* What VerdictSound says of one step.
VerdictOf(s) ==
    /\ ~Unsettled(s) => /\ FailedForGood(s) => processStatus = "permanentFail"
                        /\ FailedForNow(s) => processStatus \in Failures
    /\ epc \in {"callback", "record"} /\ s = offer /\ embedded[s] \in Failures =>
           ended[s] \in {embedded[s], "missing"}
    /\ s \in completed /\ MakeError[s] \in EarlyErrors =>
           processStatus = "permanentFail"

LEMMA VerdictPerStep ==
    ASSUME Flow
    PROVE  VerdictSound <=>
               /\ processStatus = "permanentFail" =>
                      \/ outputsFail /\ final # <<>>
                      \/ \E s \in Steps : FailedForGood(s)
               /\ processStatus = "temporaryFail" => \E s \in Steps : FailedForNow(s)
               /\ \A s \in Steps : VerdictOf(s)
<1>1. completed \subseteq Steps
    BY DEF Flow, TypeOK, WfTypeOK
<1> QED BY <1>1 DEF VerdictSound, VerdictOf

LEMMA Witnesses ==
    ASSUME \A s \in Steps : /\ FailedForGood(s) => FailedForGood(s)'
                            /\ FailedForNow(s) => FailedForNow(s)',
           VerdictSound, UNCHANGED <<processStatus, outputsFail, final>>
    PROVE  /\ processStatus' = "permanentFail" =>
                  \/ outputsFail' /\ final' # <<>>
                  \/ \E s \in Steps : FailedForGood(s)'
           /\ processStatus' = "temporaryFail" => \E s \in Steps : FailedForNow(s)'
    BY DEF VerdictSound

\* No job fails in a step that only moves on.
LEMMA SameVerdict ==
    ASSUME Flow, Flow', VerdictSound, UNCHANGED <<outputsFail, completed, ended, embedded>>,
           epc' \notin {"callback", "record"},
           \A s \in Steps : Unsettled(s) => Unsettled(s)',
           \/ UNCHANGED <<processStatus, final>>
           \/ DoOutputCallback
    PROVE  VerdictSound'
<1>1. /\ \A s \in Steps : /\ FailedForGood(s)' <=> FailedForGood(s)
                          /\ FailedForNow(s)' <=> FailedForNow(s)
    BY DEF FailedForGood, FailedForNow
<1>2. /\ processStatus' = processStatus
         \/ (outputsFail /\ processStatus' = "permanentFail")
      /\ final' = final \/ final' # <<>>
      /\ final # <<>> => final' # <<>>
      /\ processStatus' = processStatus \/ final' # <<>>
    <2>1. CASE DoOutputCallback
        <3>1. final \in Seq({"success"} \cup Failures)
            BY DEF Flow, TypeOK, WfTypeOK
        <3>2. final' # <<>>
            BY <2>1, <3>1 DEF DoOutputCallback
        <3> QED BY <2>1, <3>2 DEF DoOutputCallback
    <2>2. CASE UNCHANGED <<processStatus, final>>
        BY <2>2
    <2> QED BY <2>1, <2>2
<1>3. ASSUME NEW s \in Steps PROVE VerdictOf(s)'
    <2>1. VerdictOf(s)
        BY VerdictPerStep
    <2> QED BY <1>1, <1>2, <2>1 DEF VerdictOf, Failures
<1>4. processStatus' = "permanentFail" =>
          (outputsFail' /\ final' # <<>>) \/ \E s \in Steps : FailedForGood(s)'
    BY <1>1, <1>2 DEF VerdictSound
<1>5. processStatus' = "temporaryFail" => \E s \in Steps : FailedForNow(s)'
    BY <1>1, <1>2 DEF VerdictSound
<1> QED BY <1>3, <1>4, <1>5 DEF VerdictSound, VerdictOf, Flow, TypeOK, WfTypeOK

LEMMA GenerateVerdict ==
    ASSUME Flow, Flow', Sound, VerdictSound, Generate \/ MakeRaises
    PROVE  VerdictSound'
<1> DEFINE c == CurrentStep
<1>0. /\ epc = "next" /\ epc' = "next" /\ UNCHANGED <<outputsFail, embedded>>
      /\ \A s \in Steps : ~Unsettled(s) /\ ~Unsettled(s)'
    BY DEF Generate, MakeRaises, serVars, GenLoop, GenForEnd, GenNotReady,
           GenMake, GenMakeRaises, GenSkip, GenYieldJob, GenSum, GenExit,
           stepVars, docVars, Unsettled
<1>1. gpc = "step" /\ gidx <= NumSteps => c \in Steps
    BY NumStepsFacts DEF Flow, TypeOK, WfTypeOK, CurrentStep
<1>2. CASE /\ Generate
           /\ \/ GenLoop \/ GenForEnd \/ GenNotReady \/ GenMake \/ GenYieldJob
              \/ GenSum \/ GenExit
    <2>1. UNCHANGED <<completed, ended>>
        BY <1>2 DEF Generate, GenLoop, GenForEnd, GenNotReady, GenMake,
                    GenYieldJob, GenSum, GenExit, stepVars, serVars
    <2>2. UNCHANGED <<processStatus, final>> \/ DoOutputCallback
        BY <1>2 DEF GenLoop, GenForEnd, GenNotReady, GenMake, GenYieldJob,
                    GenSum, GenExit, cbVars
    <2> QED BY <1>0, <2>1, <2>2, SameVerdict
<1>3. CASE Generate /\ GenSkip
    <2>1. /\ c \in Steps /\ MakeError[c] \notin EarlyErrors
          /\ completed' = completed \cup {c} /\ UNCHANGED ended
          /\ UNCHANGED <<processStatus, final>> \/ DoOutputCallback
        BY <1>1, <1>3 DEF Generate, GenSkip, CanMake, serVars
    <2>2. \A s \in Steps : /\ FailedForGood(s)' <=> FailedForGood(s)
                           /\ FailedForNow(s)' <=> FailedForNow(s)
        BY <1>0, <2>1 DEF FailedForGood, FailedForNow
    <2>3. /\ processStatus' = processStatus
             \/ (outputsFail /\ processStatus' = "permanentFail" /\ final' # <<>>)
          /\ final # <<>> => final' # <<>>
        <3>1. final \in Seq({"success"} \cup Failures)
            BY DEF Flow, TypeOK, WfTypeOK
        <3>2. DoOutputCallback => final' # <<>>
            BY <3>1 DEF DoOutputCallback
        <3> QED BY <2>1, <3>2 DEF DoOutputCallback
    <2>4. ASSUME NEW s \in Steps PROVE VerdictOf(s)'
        <3>1. VerdictOf(s)
            BY VerdictPerStep
        <3> QED BY <1>0, <2>1, <2>2, <2>3, <3>1 DEF VerdictOf, Failures
    <2>5. processStatus' = "permanentFail" =>
              (outputsFail' /\ final' # <<>>) \/ \E s \in Steps : FailedForGood(s)'
        BY <1>0, <2>2, <2>3 DEF VerdictSound
    <2>6. processStatus' = "temporaryFail" => \E s \in Steps : FailedForNow(s)'
        BY <2>2, <2>3 DEF VerdictSound
    <2> QED BY <2>4, <2>5, <2>6 DEF VerdictSound, VerdictOf, Flow, TypeOK, WfTypeOK
<1>4. CASE MakeRaises
    <2>1. /\ c \in Steps /\ processStatus' = "permanentFail" /\ ended'[c] = "broken"
        BY <1>1, <1>4 DEF MakeRaises, GenMakeRaises, CanMake, Flow, TypeOK
    <2>2. \E s \in Steps : ended'[s] = "broken"
        BY <2>1
    <2>3. \E s \in Steps : FailedForGood(s)'
        BY <2>2 DEF FailedForGood
    <2> QED BY <1>0, <2>1, <2>3 DEF VerdictSound, Failures
<1> QED BY <1>2, <1>3, <1>4 DEF Generate

LEMMA RunVerdict ==
    ASSUME Flow, Flow', Sound, VerdictSound,
           Take \/ Leave \/ Run \/ RunRaises \/ RunEmbedded \/ PgRefuse
    PROVE  VerdictSound'
<1>0. UNCHANGED <<processStatus, outputsFail, final, completed, gpc, offer>>
    BY DEF Take, Leave, Run, RunRaises, RunEmbedded, PgRefuse, wfVars, stepVars,
           docVars, cbVars, genVars
<1>1. CASE Take \/ Leave \/ RunRaises
    <2>1. \A s \in Steps : Unsettled(s) => Unsettled(s)'
        BY <1>1 DEF Take, Leave, RunRaises, Unsettled
    <2>2. UNCHANGED <<ended, embedded>> /\ epc' \notin {"callback", "record"}
        BY <1>1 DEF Take, Leave, RunRaises
    <2> QED BY <1>0, <2>1, <2>2, SameVerdict
<1>2. CASE Run \/ RunEmbedded \/ PgRefuse
    <2>1. /\ gpc = "yield" /\ offer \in Steps /\ Ahead(offer) /\ epc # "callback"
          /\ epc \in {"run", "resume"}
          /\ ended \in [Steps -> Results \cup {"none", "broken"}]
          /\ embedded \in [Steps -> EmbeddedResults \cup {"none"}]
        BY <1>2 DEF Run, RunEmbedded, PgRefuse, PgResumed, Flow, TypeOK,
                    Positions, Ahead
    <2>2. /\ ended[offer] = "none" /\ MakeError[offer] = "none"
          /\ epc = "run" => embedded[offer] \in {"none", "success"}
        BY <2>1 DEF Sound, StepSound
    <2>3. \A t \in Steps \ {offer} : /\ ended'[t] = ended[t]
                                     /\ embedded'[t] = embedded[t]
        BY <1>2, <2>1 DEF Run, RunEmbedded, PgRefuse
    <2>4. embedded'[offer] = embedded[offer] \/ epc = "run"
        BY <1>2 DEF Run, RunEmbedded, PgRefuse
    <2>5. ~FailedForGood(offer) \/ embedded'[offer] = "permanentFail"
        BY <2>2, <2>4 DEF FailedForGood
    <2>6. ~FailedForNow(offer) \/ embedded'[offer] = "temporaryFail"
        BY <2>2, <2>4 DEF FailedForNow
    <2>7. \A s \in Steps : /\ FailedForGood(s) => FailedForGood(s)'
                           /\ FailedForNow(s) => FailedForNow(s)'
        BY <2>3, <2>5, <2>6 DEF FailedForGood, FailedForNow
    <2>8. Unsettled(offer)'
        BY <1>0, <1>2, <2>1 DEF Run, RunEmbedded, PgRefuse, Unsettled, AtEmbedded
    <2>9. ASSUME NEW s \in Steps PROVE VerdictOf(s)'
        <3>1. VerdictOf(s)
            BY VerdictPerStep
        <3>2. CASE s # offer
            <4>1. ~Unsettled(s)
                BY <3>2 DEF Unsettled
            <4> QED BY <1>0, <2>3, <3>1, <3>2, <4>1
                    DEF VerdictOf, FailedForGood, FailedForNow
        <3>3. CASE s = offer
            <4>1. epc' \in {"callback", "record"} /\ embedded'[s] \in Failures =>
                      ended'[s] \in {embedded'[s], "missing"}
                <5>1. CASE Run
                    BY <2>1, <2>2, <3>3, <5>1 DEF Run, Failures, PgResumed
                <5>2. CASE RunEmbedded
                    BY <5>2 DEF RunEmbedded
                <5>3. CASE PgRefuse
                    BY <2>1, <3>3, <5>3 DEF PgRefuse
                <5> QED BY <1>2, <5>1, <5>2, <5>3
            <4> QED BY <1>0, <2>2, <2>8, <3>3, <4>1 DEF VerdictOf, EarlyErrors
        <3> QED BY <3>2, <3>3
    <2>10. /\ processStatus' = "permanentFail" =>
                  (outputsFail' /\ final' # <<>>) \/ \E s \in Steps : FailedForGood(s)'
           /\ processStatus' = "temporaryFail" => \E s \in Steps : FailedForNow(s)'
        BY <1>0, <2>7, Witnesses
    <2> QED BY <2>9, <2>10 DEF VerdictSound, VerdictOf, Flow, TypeOK, WfTypeOK
<1> QED BY <1>1, <1>2

LEMMA RecordVerdict ==
    ASSUME Flow, Flow', Sound, VerdictSound, Record
    PROVE  VerdictSound'
<1> DEFINE st == Judged(ended[offer])
<1>0. /\ epc = "record" /\ epc' = "finish" /\ offer \in Steps /\ Recording(offer)
      /\ completed' = completed \cup {offer}
      /\ processStatus' = IF Overwrites(processStatus, st) THEN st
                          ELSE processStatus
      /\ UNCHANGED <<outputsFail, final, ended, embedded, gpc, offer>>
      /\ processStatus \in {"success"} \cup Failures
    BY DEF Record, RecordStatus, Recording, docVars, genVars, Flow, Positions,
           TypeOK, WfTypeOK
<1>1. ended[offer] \in Results /\ MakeError[offer] = "none"
    BY <1>0 DEF Sound, StepSound
<1>2. \A s \in Steps : /\ FailedForGood(s)' <=> FailedForGood(s)
                       /\ FailedForNow(s)' <=> FailedForNow(s)
    BY <1>0 DEF FailedForGood, FailedForNow
<1>3. embedded[offer] \in Failures => ended[offer] \in {embedded[offer], "missing"}
    BY <1>0 DEF VerdictSound
<1>4. /\ FailedForGood(offer) => st = "permanentFail"
      /\ FailedForNow(offer) => st \in Failures
      /\ st = "permanentFail" => FailedForGood(offer)
      /\ st = "temporaryFail" => FailedForNow(offer)
    BY <1>1, <1>3 DEF FailedForGood, FailedForNow, Judged, Results, Failures
<1>5. /\ processStatus = "permanentFail" => processStatus' = "permanentFail"
      /\ processStatus \in Failures => processStatus' \in Failures
      /\ st = "permanentFail" => processStatus' = "permanentFail"
      /\ st \in Failures => processStatus' \in Failures
      /\ processStatus' \in {st, processStatus}
    BY <1>0 DEF Overwrites, Failures
<1>6. ASSUME NEW s \in Steps PROVE VerdictOf(s)'
    <2>1. VerdictOf(s)
        BY VerdictPerStep
    <2>2. /\ FailedForGood(s) => processStatus' = "permanentFail"
          /\ FailedForNow(s) => processStatus' \in Failures
        <3>1. CASE s = offer
            BY <1>4, <1>5, <3>1
        <3>2. CASE s # offer
            BY <1>5, <2>1, <3>2 DEF VerdictOf, Unsettled
        <3> QED BY <3>1, <3>2
    <2> QED BY <1>0, <1>1, <1>2, <1>5, <2>1, <2>2 DEF VerdictOf, EarlyErrors
<1>7. processStatus' = "permanentFail" =>
          (outputsFail' /\ final' # <<>>) \/ \E s \in Steps : FailedForGood(s)'
    <2>1. CASE st = "permanentFail"
        BY <1>0, <1>2, <1>4, <2>1
    <2>2. CASE st # "permanentFail"
        BY <1>0, <1>2, <1>5, <2>2 DEF VerdictSound
    <2> QED BY <2>1, <2>2
<1>8. processStatus' = "temporaryFail" => \E s \in Steps : FailedForNow(s)'
    <2>1. CASE st = "temporaryFail"
        BY <1>0, <1>2, <1>4, <2>1
    <2>2. CASE st # "temporaryFail"
        BY <1>0, <1>2, <1>5, <2>2 DEF VerdictSound
    <2> QED BY <2>1, <2>2
<1> QED BY <1>6, <1>7, <1>8 DEF VerdictSound, VerdictOf, Flow, TypeOK, WfTypeOK

LEMMA AdvanceVerdict ==
    ASSUME Flow, Flow', Sound, VerdictSound, Advance
    PROVE  VerdictSound'
<1>1. CASE Generate \/ MakeRaises
    BY <1>1, GenerateVerdict
<1>2. CASE Take \/ Leave \/ Run \/ RunRaises \/ RunEmbedded \/ PgRefuse
    BY <1>2, RunVerdict
<1>3. CASE Callback
    <2>1. /\ offer \in Steps /\ ~AtEmbedded(offer) /\ epc = "callback"
          /\ epc' = "record"
          /\ UNCHANGED <<outputsFail, completed, processStatus, final, part, ended,
                         embedded, gpc, offer>>
        BY <1>3 DEF Callback, StoreOutput, docVars, cbVars, genVars, Flow, Positions
    <2>2. ASSUME NEW s \in Steps PROVE VerdictOf(s)'
        <3>1. VerdictOf(s)
            BY VerdictPerStep
        <3> QED BY <2>1, <3>1
                DEF VerdictOf, Unsettled, AtEmbedded, FailedForGood, FailedForNow
    <2>3. \A s \in Steps : /\ FailedForGood(s) => FailedForGood(s)'
                           /\ FailedForNow(s) => FailedForNow(s)'
        BY <2>1 DEF FailedForGood, FailedForNow
    <2>4. /\ processStatus' = "permanentFail" =>
                 (outputsFail' /\ final' # <<>>) \/ \E s \in Steps : FailedForGood(s)'
          /\ processStatus' = "temporaryFail" => \E s \in Steps : FailedForNow(s)'
        BY <2>1, <2>3, Witnesses
    <2> QED BY <2>2, <2>4 DEF VerdictSound, VerdictOf, Flow, TypeOK, WfTypeOK
<1>4. CASE Record
    BY <1>4, RecordVerdict
<1>5. CASE Finish
    <2>1. /\ UNCHANGED <<outputsFail, completed, ended, embedded>>
          /\ epc = "finish" /\ epc' = "resume"
          /\ UNCHANGED <<processStatus, final>> \/ DoOutputCallback
        BY <1>5 DEF Finish, ReceiveFinish, stepVars, docVars
    <2>2. \A s \in Steps : ~Unsettled(s)
        BY <2>1 DEF Unsettled
    <2> QED BY <2>1, <2>2, SameVerdict
<1>6. CASE Resume \/ PgPoll \/ PgCreated
    <2>1. /\ epc = "resume" /\ epc' = "next"
          /\ UNCHANGED <<outputsFail, completed, ended, embedded, processStatus,
                         final>>
        BY <1>6 DEF Resume, PgPoll, PgCreated, PgResumed, GenResume, stepVars,
                    docVars, cbVars
    <2>2. ASSUME NEW s \in Steps, Unsettled(s)
          PROVE  ~FailedForGood(s) /\ ~FailedForNow(s)
        <3>1. /\ s = offer /\ AtEmbedded(s) /\ gpc = "yield"
              /\ embedded[s] \in {"none", "success"}
            BY <1>6, <2>1, <2>2 DEF Resume, PgPoll, PgCreated, Unsettled
        <3>2. ended[s] = "none"
            BY <2>1, <3>1 DEF Sound, StepSound, Ahead
        <3> QED BY <3>1, <3>2 DEF FailedForGood, FailedForNow
    <2>3. ASSUME NEW s \in Steps PROVE VerdictOf(s)'
        <3>1. VerdictOf(s)
            BY VerdictPerStep
        <3> QED BY <2>1, <2>2, <3>1 DEF VerdictOf, FailedForGood, FailedForNow
    <2>4. \A s \in Steps : /\ FailedForGood(s) => FailedForGood(s)'
                           /\ FailedForNow(s) => FailedForNow(s)'
        BY <2>1 DEF FailedForGood, FailedForNow
    <2>5. /\ processStatus' = "permanentFail" =>
                 (outputsFail' /\ final' # <<>>) \/ \E s \in Steps : FailedForGood(s)'
          /\ processStatus' = "temporaryFail" => \E s \in Steps : FailedForNow(s)'
        BY <2>1, <2>4, Witnesses
    <2> QED BY <2>3, <2>5 DEF VerdictSound, VerdictOf, Flow, TypeOK, WfTypeOK
<1>7. CASE PgBroken
    <2>1. /\ epc' = "next" /\ processStatus' = "permanentFail"
          /\ offer \in Steps /\ ended'[offer] = "broken"
        BY <1>7 DEF PgBroken, PgResumed, Flow, TypeOK
    <2>2. \E s \in Steps : FailedForGood(s)'
        BY <2>1 DEF FailedForGood
    <2> QED BY <2>1, <2>2 DEF VerdictSound, Failures
<1> QED BY <1>1, <1>2, <1>3, <1>4, <1>5, <1>6, <1>7 DEF Advance, PgStep

-----------------------------------------------------------------------------
(* The scan. *)

\* A step of the executor at a yield.
LEMMA YieldScan ==
    ASSUME Flow, ScanSound, gpc = "yield", UNCHANGED <<gpc, offer>>,
           madeProgress' \in {madeProgress, TRUE}
    PROVE  ScanSound'
    BY DEF ScanSound

\* What was taken up stays so.
LEMMA TakenStays ==
    ASSUME \A s \in Steps : Taken(s)' \/ (~Taken(s) /\ s # CurrentStep),
           Flow, ScanSound, gpc = "step", gidx <= NumSteps, gidx' = gidx + 1,
           gpc' = "step", UNCHANGED <<order, madeProgress, offer>>
    PROVE  ScanSound'
<1> SUFFICES ASSUME OnError = "continue", ~madeProgress,
                    NEW i \in 1..(gidx' - 1)
             PROVE  Taken(order[i])'
    BY DEF ScanSound
<1>1. /\ gidx \in 1..NumSteps /\ order \in [1..NumSteps -> Steps]
      /\ NumSteps \in Nat
    BY NumStepsFacts DEF Flow, TypeOK, WfTypeOK
<1>2. i \in 1..gidx /\ order[i] \in Steps
    BY <1>1
<1>3. Taken(order[i]) \/ order[i] = CurrentStep
    BY <1>1, <1>2 DEF ScanSound, CurrentStep
<1>4. \A s \in Steps : s = order[i] => Taken(s)'
    BY <1>3
<1>5. order'[i] = order[i]
    OBVIOUS
<1> QED BY <1>2, <1>4, <1>5 DEF Taken, InputsReady

LEMMA GenerateScan ==
    ASSUME Flow, Flow', Sound, ScanSound, Generate \/ MakeRaises
    PROVE  ScanSound'
<1> DEFINE c == CurrentStep
<1>0. /\ UNCHANGED <<order, sources>>
      /\ gidx \in 1..(NumSteps + 1) /\ NumSteps \in Nat
      /\ order \in [1..NumSteps -> Steps]
      /\ \A s \in Steps : \E i \in 1..NumSteps : order[i] = s
    BY NumStepsFacts
       DEF Generate, MakeRaises, GenLoop, GenForEnd, GenNotReady,
           GenMake, GenMakeRaises, GenSkip, GenYieldJob, GenSum, GenExit,
           stepVars, docVars, Flow, TypeOK, WfTypeOK, Positions
<1>1. gpc = "step" /\ gidx <= NumSteps => c \in Steps
    BY <1>0 DEF CurrentStep
<1>2. CASE GenLoop
    BY <1>2 DEF GenLoop, ScanSound
<1>3. CASE GenForEnd
    <2>1. /\ UNCHANGED <<order, sources, submitted, state, madeProgress, gidx>>
          /\ gpc = "step" /\ gpc' = "sum"
          /\ OnError = "continue" => gidx > NumSteps
        BY <1>3 DEF GenForEnd, stepVars, docVars, cbVars, Stopping
    <2> QED BY <2>1 DEF ScanSound, Taken, InputsReady
<1>4. CASE GenNotReady
    <2>1. \A s \in Steps : Taken(s)' \/ (~Taken(s) /\ s # CurrentStep)
        BY <1>4 DEF GenNotReady, Taken, InputsReady, stepVars, docVars
    <2> QED BY <1>4, <2>1, TakenStays DEF GenNotReady, stepVars, docVars, cbVars
<1>5. CASE GenMake
    <2>1. /\ UNCHANGED <<order, sources, state, madeProgress, gidx>>
          /\ submitted \subseteq submitted' /\ gpc = "step" /\ gpc' = "made"
        BY <1>5 DEF GenMake, CanMake, docVars, cbVars
    <2> QED BY <2>1 DEF ScanSound, Taken, InputsReady
<1>6. CASE MakeRaises
    <2>1. /\ gpc = "step" /\ gpc' = "step" /\ gidx <= NumSteps /\ gidx' = gidx + 1
          /\ UNCHANGED <<state, sources, madeProgress, offer>>
          /\ MakeError[c] # "none"
          /\ submitted' = IF MakeError[c] \in LateErrors
                          THEN submitted \cup {c} ELSE submitted
        BY <1>6 DEF MakeRaises, GenMakeRaises, CanMake, docVars
    <2>2. MakeError[c] \in EarlyErrors \cup LateErrors
        BY <1>1, <2>1, StepsAssumption
    <2>3. \A s \in Steps : Taken(s)' \/ (~Taken(s) /\ s # CurrentStep)
        BY <2>1, <2>2 DEF Taken, InputsReady
    <2> QED BY <1>0, <2>1, <2>3, TakenStays
<1>7. CASE GenSkip
    BY <1>7 DEF GenSkip, CanMake, ScanSound
<1>8. CASE GenYieldJob
    <2>1. CASE Stopping
        BY <1>8, <2>1 DEF GenYieldJob, Stopping, ScanSound
    <2>2. CASE ~Stopping
        <3>1. gpc' = "yield" /\ madeProgress' = TRUE
            BY <1>8, <2>2 DEF GenYieldJob
        <3> QED BY <3>1 DEF ScanSound
    <2> QED BY <2>1, <2>2
<1>9. CASE GenSum
    <2>1. /\ UNCHANGED <<order, sources, submitted, state, madeProgress>>
          /\ gpc = "sum" /\ gpc' \in {"yield", "loop", "exit"}
          /\ gpc' = "yield" => offer' \notin Steps
          /\ gpc' = "exit" => ~madeProgress \/ completed = Steps
        BY <1>9, AllCompleted, StepsAssumption
           DEF GenSum, stepVars, docVars, cbVars, Jobs
    <2>2. OnError = "continue" /\ gpc' = "exit" => \A s \in Steps : Taken(s)
        <3>1. CASE completed = Steps
            BY <3>1 DEF Sound, StepSound, Taken
        <3>2. CASE completed # Steps
            BY <1>0, <2>1, <3>2 DEF ScanSound
        <3> QED BY <3>1, <3>2
    <2> QED BY <2>1, <2>2 DEF ScanSound, Taken, InputsReady
<1>10. CASE GenExit
    <2>1. /\ UNCHANGED <<order, sources, submitted, state>>
          /\ gpc = "exit" /\ gpc' = "end"
        BY <1>10 DEF GenExit, stepVars, docVars
    <2> QED BY <2>1 DEF ScanSound, Taken, InputsReady
<1> QED BY <1>2, <1>3, <1>4, <1>5, <1>6, <1>7, <1>8, <1>9, <1>10 DEF Generate

LEMMA AdvanceScan ==
    ASSUME Flow, Flow', Sound, ScanSound, Advance
    PROVE  ScanSound'
<1>1. CASE Generate \/ MakeRaises
    BY <1>1, GenerateScan
<1>2. CASE Take \/ Run \/ RunRaises \/ RunEmbedded \/ PgRefuse
    <2>1. gpc = "yield" /\ UNCHANGED <<gpc, offer, madeProgress>>
        BY <1>2 DEF Take, Run, RunRaises, RunEmbedded, PgRefuse, PgResumed,
                    Flow, Positions, wfVars, cbVars, genVars
    <2> QED BY <2>1, YieldScan
<1>3. CASE Callback \/ Record \/ Finish
    <2>1. /\ gpc = "yield" /\ UNCHANGED <<gpc, offer>>
          /\ madeProgress' \in {madeProgress, TRUE}
        BY <1>3 DEF Callback, Record, Finish, StoreOutput, RecordStatus,
                    ReceiveFinish, Flow, Positions, cbVars, genVars
    <2> QED BY <2>1, YieldScan
<1>4. CASE Leave
    <2>1. UNCHANGED <<order, sources, submitted, state, gpc, gidx, offer, madeProgress>>
        BY <1>4 DEF Leave, wfVars, stepVars, docVars, cbVars, genVars
    <2> QED BY <2>1 DEF ScanSound, Taken, InputsReady
<1>5. CASE Resume \/ PgPoll
    <2>1. /\ gpc = "yield" /\ offer \in Steps => madeProgress
          /\ gpc = "yield" /\ UNCHANGED madeProgress
          /\ gpc' = "loop" \/ (offer \in Steps /\ gpc' = "step")
        BY <1>5 DEF Resume, PgPoll, GenResume, ScanSound, cbVars
    <2> QED BY <2>1 DEF ScanSound
<1>6. CASE PgBroken \/ PgCreated
    <2>1. /\ gpc = "yield" /\ offer \in Steps /\ UNCHANGED madeProgress
          /\ gpc' \in {"step", "made"}
        BY <1>6 DEF PgBroken, PgCreated, PgResumed, Flow, Positions, cbVars
    <2> QED BY <2>1 DEF ScanSound
<1> QED BY <1>1, <1>2, <1>3, <1>4, <1>5, <1>6 DEF Advance, PgStep

-----------------------------------------------------------------------------
(* The invariant is inductive. *)

LEMMA InitInvariant == Init => IInv
<1> SUFFICES ASSUME Init PROVE IInv
    OBVIOUS
<1>1. TypeOK /\ Positions
    BY InitFlow DEF Flow
<1> USE DEF Init, WfInit
<1>2. \A s \in Steps : StepSound(s)
    BY StepsAssumption DEF StepSound, Unmade, Ahead, Recording
<1>3. ReportSound
    BY DEF ReportSound
<1>4. VerdictSound
    BY DEF VerdictSound, FailedForGood, FailedForNow, Failures
<1>5. ScanSound
    BY StepsAssumption DEF ScanSound
<1> HIDE DEF Init, WfInit
<1> QED BY <1>1, <1>2, <1>3, <1>4, <1>5 DEF IInv

LEMMA AdvanceInvariant == ASSUME IInv, Advance PROVE IInv'
<1>1. Flow /\ Sound /\ ReportSound /\ VerdictSound /\ ScanSound
    BY DEF IInv, Flow, Sound
<1>2. Flow'
    BY <1>1, GenerateFlow, RunFlow, CallbackFlow, ResumeFlow
       DEF Advance, PgStep, Sound
<1>3. \A s \in Steps : StepSound(s)'
    BY <1>1, <1>2, GenerateSteps, RunSteps, CallbackSteps, ResumeSteps
       DEF Advance, PgStep, Sound
<1>4. ReportSound' /\ VerdictSound' /\ ScanSound'
    BY <1>1, <1>2, AdvanceReport, AdvanceVerdict, AdvanceScan
<1> QED BY <1>2, <1>3, <1>4 DEF IInv, Flow

LEMMA StutterInvariant == ASSUME IInv, UNCHANGED vars PROVE IInv'
<1> USE DEF vars, wfVars, stepVars, docVars, cbVars, genVars, serVars
<1>1. TypeOK'
    BY DEF IInv, TypeOK, WfTypeOK
<1>2. Positions'
    BY DEF IInv, Positions, AtEmbedded, CurrentStep
<1>3. \A s \in Steps : StepSound(s)'
    BY DEF IInv, StepSound, Unmade, Ahead, Recording, AtEmbedded, CurrentStep
<1>4. ReportSound'
    BY DEF IInv, ReportSound
<1>5. VerdictSound'
    BY DEF IInv, VerdictSound, FailedForGood, FailedForNow, Unsettled, AtEmbedded
<1>6. ScanSound'
    BY DEF IInv, ScanSound, Taken, InputsReady
<1> QED BY <1>1, <1>2, <1>3, <1>4, <1>5, <1>6 DEF IInv

\* The inductive invariant holds: the generator, the executor and the callback
\* of SingleJobExecutor stay in step.
THEOREM SerialInvariance == Spec => []IInv
<1>1. IInv /\ [Next]_vars => IInv'
    BY AdvanceInvariant, StutterInvariant DEF Next, Finished
<1> QED BY <1>1, InitInvariant, PTL DEF Spec

-----------------------------------------------------------------------------
(* What follows from it. *)

\* Every variable keeps its type.
THEOREM SerialTypes == Spec => []TypeOK
<1>1. IInv => TypeOK
    BY DEF IInv
<1> QED BY <1>1, SerialInvariance, PTL

\* The workflow calls back once if run_jobs returns, and never if it gives up
\* or raises.
THEOREM SerialCallsBackOnce == Spec => []CallsBackOnce
<1>1. IInv => CallsBackOnce
    BY DEF IInv, Positions, ReportSound, CallsBackOnce
<1> QED BY <1>1, SerialInvariance, PTL

\* What it calls back with is the worst of its steps, of the tools embedded in
\* them, and of the collection of the outputs.
THEOREM SerialReportsWorst == Spec => []ReportsWorst
<1>1. ASSUME IInv PROVE ReportsWorst
    <2> SUFFICES ASSUME epc = "done"
                 PROVE  final[1] =
                            IF outputsFail \/ \E s \in Steps : FailedForGood(s)
                            THEN "permanentFail"
                            ELSE IF \E s \in Steps : FailedForNow(s)
                            THEN "temporaryFail" ELSE "success"
        BY DEF ReportsWorst
    <2>1. /\ final # <<>> /\ final[1] = processStatus
          /\ outputsFail => processStatus = "permanentFail"
          /\ processStatus \in {"success"} \cup Failures
        BY <1>1 DEF IInv, Positions, ReportSound, TypeOK, WfTypeOK
    <2>2. \A s \in Steps : ~Unsettled(s)
        BY DEF Unsettled
    <2> QED BY <1>1, <2>1, <2>2 DEF IInv, VerdictSound, Failures
<1> QED BY <1>1, SerialInvariance, PTL

\* With --on-error continue, what could run was taken up.
THEOREM SerialContinues == Spec => []ContinueRunsIndependent
<1>1. IInv => ContinueRunsIndependent
    BY DEF IInv, Positions, ScanSound, Taken, ContinueRunsIndependent
<1> QED BY <1>1, SerialInvariance, PTL

-----------------------------------------------------------------------------
(***************************************************************************)
(* Giving up.                                                              *)
(***************************************************************************)

\* The generator's part of a step that leaves the order of the steps alone.
LEMMA ScanOrder ==
    ASSUME Flow
    PROVE  /\ gidx \in 1..(NumSteps + 1) /\ NumSteps \in Nat
           /\ order \in [1..NumSteps -> Steps]
           /\ \A s \in Steps : \E i \in 1..NumSteps : order[i] = s
           /\ gidx <= NumSteps => CurrentStep \in Steps
<1>1. /\ gidx \in 1..(NumSteps + 1) /\ NumSteps \in Nat
      /\ order \in [1..NumSteps -> Steps]
      /\ \A s \in Steps : \E i \in 1..NumSteps : order[i] = s
    BY NumStepsFacts DEF Flow, TypeOK, WfTypeOK, Positions
<1> QED BY <1>1 DEF CurrentStep

LEMMA GeneratePass ==
    ASSUME Flow, PassSound, Generate \/ MakeRaises
    PROVE  PassSound'
<1>0. /\ UNCHANGED <<order, sources, epc>> /\ epc = "next"
      /\ gidx \in 1..(NumSteps + 1) /\ NumSteps \in Nat
      /\ order \in [1..NumSteps -> Steps]
      /\ \A s \in Steps : \E i \in 1..NumSteps : order[i] = s
      /\ gidx <= NumSteps => CurrentStep \in Steps
    BY ScanOrder
       DEF Generate, MakeRaises, GenLoop, GenForEnd, GenNotReady, GenMake,
           GenMakeRaises, GenSkip, GenYieldJob, GenSum, GenExit, stepVars,
           docVars, serVars
<1>1. CASE GenLoop
    BY <1>0, <1>1 DEF GenLoop, PassSound
<1>2. CASE GenForEnd
    <2>1. /\ UNCHANGED <<submitted, state, processStatus, madeProgress, gidx>>
          /\ gpc = "step" /\ gpc' = "sum"
          /\ processStatus = "success" => gidx > NumSteps
        BY <1>2 DEF GenForEnd, stepVars, cbVars, Stopping
    <2> QED BY <1>0, <2>1 DEF PassSound, InputsReady
<1>3. CASE GenNotReady
    <2>1. /\ UNCHANGED <<submitted, state, processStatus, madeProgress, gpc>>
          /\ gpc = "step" /\ gidx <= NumSteps /\ gidx' = gidx + 1
          /\ order[gidx] \in submitted \/ ~InputsReady(order[gidx])
        BY <1>3 DEF GenNotReady, stepVars, cbVars, CurrentStep
    <2>2. \A i \in 1..(gidx' - 1) : i \in 1..(gidx - 1) \/ i = gidx
        BY <1>0, <2>1
    <2> QED BY <1>0, <2>1, <2>2 DEF PassSound, InputsReady
<1>4. CASE GenMake
    <2>1. /\ UNCHANGED <<state, processStatus, madeProgress, gidx>>
          /\ gpc = "step" /\ gpc' = "made" /\ submitted \subseteq submitted'
        BY <1>4 DEF GenMake, CanMake, cbVars
    <2> QED BY <1>0, <2>1 DEF PassSound, InputsReady
<1>5. CASE MakeRaises
    BY <1>0, <1>5 DEF MakeRaises, GenMakeRaises, CanMake, PassSound
<1>6. CASE GenSkip
    BY <1>0, <1>6 DEF GenSkip, CanMake, PassSound
<1>7. CASE GenYieldJob
    <2>1. gpc = "made" /\ CurrentStep \in Steps
        BY <1>0, <1>7 DEF GenYieldJob, Flow, Positions
    <2>2. CASE Stopping
        BY <1>0, <1>7, <2>1, <2>2 DEF GenYieldJob, Stopping, PassSound
    <2>3. CASE ~Stopping
        <3>1. gpc' = "yield" /\ offer' # NoJob
            BY <1>7, <2>1, <2>3, StepsAssumption DEF GenYieldJob, Jobs
        <3> QED BY <1>0, <3>1 DEF PassSound
    <2> QED BY <2>2, <2>3
<1>8. CASE GenSum
    <2>1. /\ UNCHANGED <<submitted, state, processStatus, madeProgress>>
          /\ gpc = "sum" /\ gpc' \in {"yield", "loop", "exit"}
          /\ gpc' = "yield" => processStatus = "success" /\ ~madeProgress
        BY <1>8 DEF GenSum, stepVars, cbVars
    <2>2. ASSUME gpc' = "yield", NEW s \in Steps
          PROVE  s \in submitted \/ ~InputsReady(s)
        BY <1>0, <2>1, <2>2 DEF PassSound
    <2> QED BY <1>0, <2>1, <2>2 DEF PassSound, InputsReady
<1>9. CASE GenExit
    BY <1>0, <1>9 DEF GenExit, PassSound
<1> QED BY <1>1, <1>2, <1>3, <1>4, <1>5, <1>6, <1>7, <1>8, <1>9 DEF Generate

LEMMA AdvancePass ==
    ASSUME Flow, ScanSound, PassSound, Advance
    PROVE  PassSound'
<1>1. CASE Generate \/ MakeRaises
    BY <1>1, GeneratePass
<1>2. CASE Take
    BY <1>2 DEF Take, PassSound, InputsReady, wfVars, stepVars, docVars, cbVars,
                genVars
<1>3. CASE Run \/ RunRaises \/ RunEmbedded \/ PgRefuse
    <2>1. gpc' = "yield" /\ offer' \in Steps /\ epc' # "stuck"
        BY <1>3 DEF Run, RunRaises, RunEmbedded, PgRefuse, PgResumed, Flow,
                    Positions, wfVars, genVars
    <2> QED BY <2>1, StepsAssumption DEF PassSound, Jobs
<1>4. CASE Callback \/ Record \/ Finish
    <2>1. gpc' = "yield" /\ offer' \in Steps /\ epc' # "stuck"
        BY <1>4 DEF Callback, Record, Finish, StoreOutput, RecordStatus,
                    ReceiveFinish, Flow, Positions, genVars
    <2> QED BY <2>1, StepsAssumption DEF PassSound, Jobs
<1>5. CASE Leave
    <2>1. gpc' = "end" /\ epc' # "stuck"
        BY <1>5 DEF Leave, wfVars, genVars
    <2> QED BY <2>1 DEF PassSound
<1>6. CASE Resume \/ PgPoll
    <2>1. /\ gpc = "yield" /\ offer \in Steps => madeProgress
          /\ gpc = "yield" /\ UNCHANGED madeProgress /\ epc' = "next"
          /\ gpc' = "loop" \/ (offer \in Steps /\ gpc' = "step")
        BY <1>6 DEF Resume, PgPoll, GenResume, ScanSound, cbVars
    <2> QED BY <2>1 DEF PassSound
<1>7. CASE PgBroken \/ PgCreated
    <2>1. /\ gpc = "yield" /\ offer \in Steps /\ UNCHANGED madeProgress
          /\ gpc' \in {"step", "made"} /\ epc' = "next"
        BY <1>7 DEF PgBroken, PgCreated, PgResumed, Flow, Positions, cbVars
    <2> QED BY <2>1 DEF PassSound, ScanSound
<1> QED BY <1>1, <1>2, <1>3, <1>4, <1>5, <1>6, <1>7 DEF Advance, PgStep

\* A failure of the workflow is never taken back.
LEMMA SuccessIsOld ==
    ASSUME Advance, processStatus' = "success"
    PROVE  processStatus = "success"
<1> USE DEF wfVars, cbVars, DoOutputCallback
<1>1. CASE Generate \/ MakeRaises
    BY <1>1 DEF Generate, MakeRaises, GenLoop, GenForEnd, GenNotReady, GenMake,
                GenMakeRaises, GenSkip, GenYieldJob, GenSum, GenExit
<1>2. CASE Callback \/ Record \/ Finish
    BY <1>2 DEF Callback, Record, Finish, StoreOutput, RecordStatus, Overwrites,
                ReceiveFinish, Failures
<1>3. CASE \/ Take \/ Leave \/ Run \/ RunRaises \/ RunEmbedded \/ Resume \/ PgStep
    BY <1>3 DEF Take, Leave, Run, RunRaises, RunEmbedded, Resume, PgStep, PgPoll,
                PgRefuse, PgBroken, PgCreated, GenResume
<1> QED BY <1>1, <1>2, <1>3 DEF Advance

\* AheadSound for one step, when nothing has failed.
LEMMA AdvanceAheadOf ==
    ASSUME Flow, AheadSound, Advance, epc' # "raised",
           processStatus' = "success", NEW s \in submitted' \ completed'
    PROVE  \/ Ahead(s)' \/ Recording(s)'
           \/ (AtEmbedded(s) /\ embedded[s] = "none")'
<1> DEFINE polled == AtEmbedded(s) /\ embedded[s] = "none"
<1>0. processStatus = "success" /\ ~Stopping
    BY SuccessIsOld DEF Stopping
<1>1. epc # "raised"
    BY DEF Advance, Generate, MakeRaises, Take, Leave, Run, RunRaises,
           RunEmbedded, Callback, Record, Finish, Resume, PgStep, PgPoll,
           PgRefuse, PgBroken, PgCreated, PgResumed
<1>2. s \in submitted \ completed => Ahead(s) \/ Recording(s) \/ polled
    BY <1>0, <1>1 DEF AheadSound
<1>3. CASE GenMake /\ UNCHANGED serVars /\ epc = "next"
    <2>1. /\ gpc = "step" /\ gpc' = "made" /\ CurrentStep' = CurrentStep
          /\ submitted' = submitted \cup {CurrentStep}
          /\ UNCHANGED <<completed, part, embedded, epc>>
        BY <1>3 DEF GenMake, CanMake, docVars, CurrentStep, serVars
    <2>2. CASE s = CurrentStep
        BY <2>1, <2>2 DEF Ahead
    <2>3. CASE s # CurrentStep
        BY <1>2, <1>3, <2>1, <2>3 DEF Ahead, Recording, AtEmbedded
    <2> QED BY <2>2, <2>3
<1>4. CASE GenYieldJob /\ UNCHANGED serVars /\ epc = "next"
    <2>1. /\ gpc = "made" /\ gpc' = "yield" /\ offer' = CurrentStep
          /\ UNCHANGED <<submitted, completed, part, embedded, epc>>
        BY <1>0, <1>4 DEF GenYieldJob, stepVars, serVars
    <2> QED BY <1>2, <1>4, <2>1 DEF Ahead, Recording, AtEmbedded
<1>5. CASE /\ \/ GenLoop \/ GenForEnd \/ GenNotReady \/ GenSkip \/ GenSum
              \/ GenExit
           /\ UNCHANGED serVars /\ epc = "next"
    <2>1. /\ gpc \in {"loop", "step", "sum", "exit"}
          /\ UNCHANGED <<part, embedded>>
          /\ \/ submitted' = submitted /\ completed' = completed
             \/ \E c : /\ submitted' = submitted \cup {c}
                       /\ completed' = completed \cup {c}
        BY <1>5 DEF GenLoop, GenForEnd, GenNotReady, GenSkip, GenSum, GenExit,
                    CanMake, stepVars, serVars
    <2>2. s \in submitted \ completed
        BY <2>1
    <2> QED BY <1>2, <1>5, <2>1, <2>2 DEF Ahead, Recording, AtEmbedded
<1>6. ~MakeRaises /\ ~PgBroken
    BY DEF MakeRaises, GenMakeRaises, PgBroken
<1>7. CASE \/ Take \/ Leave \/ Run \/ RunEmbedded
    <2>1. /\ UNCHANGED <<submitted, completed, part, gpc, gidx, order, offer>>
          /\ s \in Steps
        BY <1>7 DEF Take, Leave, Run, RunEmbedded, wfVars, stepVars, docVars,
                    genVars, Flow, TypeOK, WfTypeOK
    <2>2. CASE Take
        BY <1>2, <2>1, <2>2, StepsAssumption
           DEF Take, Ahead, Recording, AtEmbedded, Jobs, CurrentStep
    <2>3. CASE Leave
        BY <1>2, <2>1, <2>3 DEF Leave, Ahead, Recording, AtEmbedded
    <2>4. CASE Run
        BY <1>2, <2>1, <2>4 DEF Run, Ahead, Recording, AtEmbedded, Flow, Positions
    <2>5. CASE RunEmbedded
        <3>1. /\ epc = "run" /\ epc' = "resume" /\ AtEmbedded(offer)
              /\ gpc = "yield" /\ offer \in Steps
              /\ \A t \in Steps \ {offer} : embedded'[t] = embedded[t]
            BY <2>5 DEF RunEmbedded, Flow, Positions, TypeOK
        <3> QED BY <1>2, <2>1, <3>1 DEF Ahead, Recording, AtEmbedded
    <2> QED BY <1>7, <2>2, <2>3, <2>4, <2>5
<1>8. CASE Callback \/ Record \/ Finish
    <2>1. /\ UNCHANGED <<submitted, part, embedded, gpc, gidx, order, offer>>
          /\ gpc = "yield" /\ offer \in Steps
        BY <1>8 DEF Callback, Record, Finish, StoreOutput, RecordStatus,
                    ReceiveFinish, stepVars, docVars, genVars, Flow, Positions
    <2>2. CASE Callback
        BY <1>2, <2>1, <2>2
           DEF Callback, StoreOutput, Ahead, Recording, AtEmbedded
    <2>3. CASE Record
        BY <1>2, <2>1, <2>3
           DEF Record, RecordStatus, Ahead, Recording, AtEmbedded
    <2>4. CASE Finish
        BY <1>2, <2>1, <2>4
           DEF Finish, ReceiveFinish, stepVars, Ahead, Recording, AtEmbedded
    <2> QED BY <1>8, <2>2, <2>3, <2>4
<1>9. CASE Resume \/ PgPoll
    <2>1. /\ epc = "resume" /\ gpc = "yield"
          /\ UNCHANGED <<submitted, completed, part, embedded>>
          /\ AtEmbedded(offer) /\ offer \in Steps => embedded[offer] = "none"
          /\ s \in Steps
        BY <1>9 DEF Resume, PgPoll, PgResumed, GenResume, stepVars, Flow, TypeOK,
                    WfTypeOK
    <2> QED BY <1>2, <2>1 DEF Ahead, Recording, AtEmbedded
<1>10. CASE PgRefuse \/ PgCreated
    <2>1. /\ epc = "resume" /\ gpc = "yield" /\ offer \in Steps
          /\ offer = CurrentStep
          /\ UNCHANGED <<submitted, completed, embedded, order, gidx, offer>>
          /\ \A t \in Steps \ {offer} : part'[t] = part[t]
          /\ s \in Steps
          /\ \/ gpc' = "yield" /\ epc' = "callback"
             \/ gpc' = "made"
        BY <1>10 DEF PgRefuse, PgCreated, PgResumed, wfVars, stepVars, docVars,
                     genVars, Flow, TypeOK, WfTypeOK, Positions
    <2>2. CASE s = offer
        BY <2>1, <2>2 DEF Ahead, CurrentStep
    <2>3. CASE s # offer
        BY <1>2, <2>1, <2>3 DEF Ahead, Recording, AtEmbedded
    <2> QED BY <2>2, <2>3
<1>11. ~RunRaises
    BY DEF RunRaises
<1> QED BY <1>3, <1>4, <1>5, <1>6, <1>7, <1>8, <1>9, <1>10, <1>11
        DEF Advance, Generate, PgStep

LEMMA StutterGiveUp ==
    ASSUME PassSound, AheadSound, UNCHANGED vars
    PROVE  PassSound' /\ AheadSound'
<1> USE DEF vars, wfVars, stepVars, docVars, cbVars, genVars, serVars
<1>1. PassSound'
    BY DEF PassSound, InputsReady
<1>2. AheadSound'
    BY DEF AheadSound, Ahead, Recording, AtEmbedded, CurrentStep
<1> QED BY <1>1, <1>2

\* What the generator knows when it yields None, and where the submitted steps
\* are.
THEOREM SerialGiveUpInvariance == Spec => [](PassSound /\ AheadSound)
<1>1. Init => PassSound /\ AheadSound
    BY StepsAssumption DEF Init, WfInit, PassSound, AheadSound, Jobs
<1>2. ASSUME IInv, PassSound, AheadSound, [Next]_vars
      PROVE  PassSound' /\ AheadSound'
    <2>1. CASE Advance
        <3>1. PassSound'
            BY <1>2, <2>1, AdvancePass DEF IInv, Flow
        <3>2. AheadSound'
            BY <1>2, <2>1, AdvanceAheadOf DEF IInv, Flow, AheadSound
        <3> QED BY <3>1, <3>2
    <2>2. CASE UNCHANGED vars
        BY <1>2, <2>2, StutterGiveUp
    <2> QED BY <1>2, <2>1, <2>2 DEF Next, Finished
<1>3. IInv /\ (PassSound /\ AheadSound) /\ [Next]_vars
          => (PassSound /\ AheadSound)'
    BY <1>2
<1> QED BY <1>1, <1>3, SerialInvariance, PTL DEF Spec

\* run_jobs gives up only over a process generator whose embedded tool has not
\* called back.
THEOREM SerialHonestGiveUp == ASSUME Acyclic PROVE Spec => []HonestGiveUp
<1>1. ASSUME IInv, PassSound, AheadSound PROVE HonestGiveUp
    <2> SUFFICES ASSUME epc = "stuck" PROVE HonestGiveUp
        BY DEF HonestGiveUp
    <2>1. /\ gpc = "yield" /\ offer = NoJob /\ processStatus = "success"
          /\ completed # Steps
          /\ \A s \in Steps : s \in submitted \/ ~InputsReady(s)
        BY <1>1 DEF IInv, Positions, PassSound
    <2>2. /\ submitted \subseteq Steps /\ completed \subseteq Steps
          /\ sources \in Graphs
        BY <1>1 DEF IInv, TypeOK, WfTypeOK
    <2>3. \A s \in Steps : ~FailedForGood(s) /\ ~FailedForNow(s)
        <3>1. \A s \in Steps : ~Unsettled(s)
            BY DEF Unsettled
        <3> QED BY <1>1, <2>1, <3>1 DEF IInv, VerdictSound, Failures
    <2>4. completed \subseteq submitted
        BY <1>1, <2>1, <2>2 DEF IInv, StepSound, VerdictSound
    <2>5. \A s \in submitted \ completed :
              s \in Generating /\ part[s] = "embedded" /\ embedded[s] = "none"
        BY <1>1, <2>1 DEF AheadSound, Ahead, Recording, AtEmbedded
    <2>6. submitted # completed
        <3> SUFFICES ASSUME submitted = completed PROVE FALSE
            OBVIOUS
        <3> DEFINE later == Steps \ completed
        <3>1. later \in SUBSET Steps /\ later # {}
            BY <2>1, <2>2
        <3>2. PICK s \in later : sources[s] \cap later = {}
            <4> HIDE DEF later
            <4> QED BY <2>2, <3>1, Acyclic DEF Acyclic
        <3>3. sources[s] \subseteq Steps
            BY <2>2, StepsAssumption
        <3>4. \A t \in sources[s] : t \in completed
            BY <3>2, <3>3
        <3>5. InputsReady(s)
            BY <1>1, <2>1, <2>2, <3>4 DEF IInv, StepSound, InputsReady
        <3> QED BY <2>1, <3>2, <3>5
    <2>7. \E s \in Generating \cap submitted :
              part[s] = "embedded" /\ embedded[s] = "none"
        BY <2>4, <2>5, <2>6
    <2>8. \A s \in Steps : ended[s] \notin Failures \cup {"broken"}
        BY <2>3 DEF FailedForGood, FailedForNow, Failures
    <2> QED BY <2>1, <2>7, <2>8 DEF HonestGiveUp
<1> QED BY <1>1, SerialInvariance, SerialGiveUpInvariance, PTL

-----------------------------------------------------------------------------
(***************************************************************************)
(* The refinement of WorkflowSpec.                                         *)
(***************************************************************************)

\* What WorkflowSpec sees of the state.
seen == <<docVars, submitted, completed, state, processStatus, final>>

LEMMA UnseenStutters == ASSUME UNCHANGED seen PROVE UNCHANGED WS!vars
<1>1. \A s \in Steps : PhaseOf(s)' = PhaseOf(s)
    BY DEF seen, PhaseOf
<1> QED BY <1>1 DEF seen, docVars, WS!vars, WS!given

\* Only the step s moves.
LEMMA OneMoves ==
    ASSUME NEW s \in Steps, \A t \in Steps \ {s} : PhaseOf(t)' = PhaseOf(t)
    PROVE  WS!Move(s, PhaseOf(s)')
    BY DEF WS!Move

LEMMA PhaseFacts ==
    ASSUME IInv, NEW s \in Steps
    PROVE  /\ s \notin submitted /\ MakeError[s] \notin EarlyErrors
                => PhaseOf(s) = "idle" /\ s \notin completed
           /\ InputsReady(s) => WS!Ready(s)
           /\ Ahead(s) => PhaseOf(s) = "active"
<1>1. sources \in [Steps -> SUBSET Steps] /\ StepSound(s)
    BY StepsAssumption DEF IInv, TypeOK, WfTypeOK
<1>2. "none" \notin Done /\ "none" \notin Failures
    BY DEF Done, Failures
<1>3. s \notin submitted /\ MakeError[s] \notin EarlyErrors
          => PhaseOf(s) = "idle" /\ s \notin completed
    BY <1>1, <1>2 DEF PhaseOf, StepSound
<1>4. InputsReady(s) => WS!Ready(s)
    BY <1>1 DEF InputsReady, WS!Ready, PhaseOf
<1>5. Ahead(s) => PhaseOf(s) = "active"
    BY <1>1, <1>2 DEF StepSound, PhaseOf
<1> QED BY <1>3, <1>4, <1>5

\* Nothing was reported, or a failure, while some step has not completed.
LEMMA NotReported ==
    ASSUME IInv, NEW s \in Steps, s \notin completed
    PROVE  \A i \in 1..Len(final) : final[i] # "success"
<1>1. final # <<>> => /\ final[1] = processStatus
                      /\ processStatus = "success" => completed = Steps
    BY DEF IInv, ReportSound
<1>2. Len(final) <= 1 /\ final \in Seq({"success"} \cup Failures)
    BY DEF IInv, ReportSound, TypeOK, WfTypeOK
<1>3. \A i \in 1..Len(final) : i = 1 /\ final # <<>>
    BY <1>2
<1> QED BY <1>1, <1>3

LEMMA CallbackReports ==
    ASSUME IInv, IInv', DoOutputCallback, UNCHANGED docVars
    PROVE  WS!Reports
<1> DEFINE ps == IF outputsFail THEN "permanentFail" ELSE processStatus
<1>1. processStatus' = ps /\ final' = Append(final, ps)
    BY DEF DoOutputCallback
<1>2. final' # <<>>
    BY <1>1 DEF IInv, TypeOK, WfTypeOK
<1>3. ps = "success" => \A s \in Steps : s \in completed'
    BY <1>1, <1>2 DEF IInv, ReportSound
<1>4. ps = "success" => \A s \in Steps : state'[s] \in Done
    BY <1>1, <1>3 DEF IInv, StepSound
<1>5. ps = "success" => \A s \in Steps : PhaseOf(s)' = "delivered"
    BY <1>4 DEF PhaseOf
<1> QED BY <1>1, <1>5 DEF WS!Reports

LEMMA GenMakeRefines ==
    ASSUME IInv, GenMake, NEW c \in Steps, c = CurrentStep
    PROVE  WS!Start(c)
<1>1. /\ c \notin submitted /\ InputsReady(c) /\ MakeError[c] = "none"
      /\ submitted' = submitted \cup {c}
      /\ UNCHANGED <<docVars, completed, state, processStatus, final>>
    BY DEF GenMake, CanMake, cbVars
<1>2. PhaseOf(c) = "idle" /\ c \notin completed /\ WS!Ready(c)
    BY <1>1, PhaseFacts DEF EarlyErrors
<1>3. state[c] = "none"
    BY <1>1 DEF IInv, StepSound
<1>4. PhaseOf(c)' = "active"
    BY <1>1, <1>2, <1>3 DEF PhaseOf, Done, Failures
<1>5. \A t \in Steps \ {c} : PhaseOf(t)' = PhaseOf(t)
    BY <1>1 DEF PhaseOf
<1>6. WS!Move(c, "active")
    BY <1>4, <1>5, OneMoves
<1> QED BY <1>1, <1>2, <1>6 DEF WS!Start, WS!given, docVars

LEMMA MakeRaisesRefines ==
    ASSUME IInv, GenMakeRaises, NEW c \in Steps, c = CurrentStep
    PROVE  WS!Fail(c) \/ WS!Degrade
<1>1. /\ c \notin submitted /\ InputsReady(c) /\ MakeError[c] # "none"
      /\ submitted' = submitted \/ submitted' = submitted \cup {c}
      /\ completed' = completed \/ completed' = completed \cup {c}
      /\ processStatus' = "permanentFail"
      /\ UNCHANGED <<docVars, state, final>>
    BY DEF GenMakeRaises, CanMake
<1>2. state[c] = "none" /\ "none" \notin Done /\ "none" \notin Failures
    BY <1>1 DEF IInv, StepSound, Done, Failures
<1>3. WS!Worsen
    <2>1. c \in completed => processStatus = "permanentFail"
        BY <1>1 DEF IInv, StepSound, VerdictSound
    <2>2. \A i \in 1..Len(final) : final[i] # "success"
        <3>1. CASE c \notin completed
            BY <3>1, NotReported
        <3>2. CASE c \in completed
            <4>1. final # <<>> => final[1] = "permanentFail"
                BY <2>1, <3>2 DEF IInv, ReportSound
            <4>2. Len(final) <= 1 /\ final \in Seq({"success"} \cup Failures)
                BY DEF IInv, ReportSound, TypeOK, WfTypeOK
            <4>3. \A i \in 1..Len(final) : i = 1 /\ final # <<>>
                BY <4>2
            <4> QED BY <4>1, <4>3
        <3> QED BY <3>1, <3>2
    <2> QED BY <1>1, <2>2 DEF WS!Worsen, WS!Failures
<1>4. \A t \in Steps \ {c} : PhaseOf(t)' = PhaseOf(t)
    BY <1>1 DEF PhaseOf
<1>5. CASE PhaseOf(c)' = PhaseOf(c)
    BY <1>1, <1>3, <1>4, <1>5 DEF WS!Degrade, WS!given, docVars
<1>6. CASE PhaseOf(c)' # PhaseOf(c)
    <2>1. PhaseOf(c) = "idle" /\ PhaseOf(c)' = "failed"
        BY <1>1, <1>2, <1>6 DEF PhaseOf
    <2>2. WS!Move(c, "failed") /\ WS!Ready(c)
        BY <1>1, <1>4, <2>1, OneMoves, PhaseFacts
    <2> QED BY <1>1, <1>3, <2>1, <2>2 DEF WS!Fail, WS!given, docVars
<1> QED BY <1>5, <1>6

LEMMA GenSkipRefines ==
    ASSUME IInv, IInv', GenSkip, NEW c \in Steps, c = CurrentStep
    PROVE  WS!Skip(c)
<1>1. /\ c \notin submitted /\ InputsReady(c) /\ MakeError[c] \notin EarlyErrors
      /\ submitted' = submitted \cup {c} /\ completed' = completed \cup {c}
      /\ state' = [state EXCEPT ![c] = "skipped"]
      /\ DoOutputCallback \/ UNCHANGED <<processStatus, didCallback, final>>
      /\ UNCHANGED docVars
    BY DEF GenSkip, CanMake
<1>2. PhaseOf(c) = "idle" /\ WS!Ready(c)
    BY <1>1, PhaseFacts
<1>3. state \in [Steps -> Status \cup {"none"}]
    BY DEF IInv, TypeOK, WfTypeOK
<1>4. PhaseOf(c)' = "delivered"
    BY <1>1, <1>3 DEF PhaseOf, Done
<1>5. \A t \in Steps \ {c} : PhaseOf(t)' = PhaseOf(t)
    BY <1>1, <1>3 DEF PhaseOf
<1>6. WS!Move(c, "delivered")
    BY <1>4, <1>5, OneMoves
<1>7. WS!Reports \/ UNCHANGED <<processStatus, final>>
    BY <1>1, CallbackReports
<1> QED BY <1>1, <1>2, <1>6, <1>7 DEF WS!Skip, WS!given, docVars

\* A step that at most reports.
LEMMA ReportRefines ==
    ASSUME IInv, IInv', UNCHANGED stepVars,
           DoOutputCallback \/ UNCHANGED <<processStatus, final>>
    PROVE  WS!Report \/ UNCHANGED WS!vars
<1>1. CASE DoOutputCallback
    <2>1. UNCHANGED [s \in Steps |-> PhaseOf(s)]
        BY DEF PhaseOf, stepVars
    <2> QED BY <1>1, <2>1, CallbackReports
            DEF WS!Report, WS!given, docVars, stepVars
<1>2. CASE UNCHANGED <<processStatus, final>>
    BY <1>2, UnseenStutters DEF seen, stepVars
<1> QED BY <1>1, <1>2

LEMMA GenerateRefines ==
    ASSUME IInv, IInv', Generate \/ MakeRaises
    PROVE  WS!Next \/ UNCHANGED WS!vars
<1>1. CASE GenMake \/ GenMakeRaises \/ GenSkip
    <2>1. CurrentStep \in Steps
        <3>1. /\ order \in [1..NumSteps -> Steps] /\ gidx \in 1..(NumSteps + 1)
              /\ gidx <= NumSteps
            BY <1>1 DEF IInv, TypeOK, WfTypeOK, GenMake, GenMakeRaises, GenSkip,
                        CanMake
        <3> QED BY <3>1, NumStepsFacts DEF CurrentStep
    <2> QED BY <1>1, <2>1, GenMakeRefines, MakeRaisesRefines, GenSkipRefines
            DEF WS!Next
<1>2. CASE \/ GenLoop \/ GenForEnd \/ GenNotReady \/ GenYieldJob \/ GenSum
           \/ GenExit
    <2>1. /\ UNCHANGED stepVars
          /\ DoOutputCallback \/ UNCHANGED <<processStatus, final>>
        BY <1>2 DEF GenLoop, GenForEnd, GenNotReady, GenYieldJob, GenSum, GenExit,
                    cbVars
    <2> QED BY <2>1, ReportRefines DEF WS!Next
<1> QED BY <1>1, <1>2 DEF Generate, MakeRaises

LEMMA CallbackRefines ==
    ASSUME IInv, Callback, NEW x \in Steps, x = offer
    PROVE  WS!Deliver(x) \/ WS!Fail(x) \/ UNCHANGED WS!vars
<1>1. /\ epc = "callback" /\ gpc = "yield"
      /\ state' = [state EXCEPT ![x] = Stored(ended[x])]
      /\ UNCHANGED <<docVars, submitted, completed, processStatus, final>>
      /\ state \in [Steps -> Status \cup {"none"}]
    BY DEF Callback, StoreOutput, cbVars, IInv, TypeOK, WfTypeOK, Positions
<1>2. Ahead(x)
    BY <1>1 DEF Ahead
<1>3. /\ PhaseOf(x) = "active" /\ x \in submitted /\ x \notin completed
      /\ MakeError[x] = "none" /\ ended[x] \in Results
    BY <1>1, <1>2, PhaseFacts DEF IInv, StepSound
<1>4. \A t \in Steps \ {x} : PhaseOf(t)' = PhaseOf(t)
    BY <1>1 DEF PhaseOf
<1>5. Stored(ended[x]) \in Done \cup Failures \cup {"none"}
    BY <1>3 DEF Stored, Results, Done, Failures
<1>6. state'[x] = Stored(ended[x])
    BY <1>1
<1>7. CASE Stored(ended[x]) \in Done
    <2>1. PhaseOf(x)' = "delivered"
        BY <1>6, <1>7 DEF PhaseOf
    <2>2. WS!Move(x, "delivered")
        BY <1>1, <1>4, <2>1, OneMoves
    <2> QED BY <1>1, <1>3, <2>2 DEF WS!Deliver, WS!given, docVars
<1>8. CASE Stored(ended[x]) \in Failures
    <2>1. PhaseOf(x)' = "failed"
        BY <1>6, <1>8 DEF PhaseOf, Done, Failures
    <2>2. WS!Move(x, "failed")
        BY <1>1, <1>4, <2>1, OneMoves
    <2> QED BY <1>1, <1>3, <2>2 DEF WS!Fail, WS!given, docVars
<1>9. CASE Stored(ended[x]) = "none"
    <2>1. PhaseOf(x)' = PhaseOf(x)
        BY <1>1, <1>3, <1>6, <1>9 DEF PhaseOf, Done, Failures
    <2> QED BY <1>1, <1>4, <2>1 DEF WS!vars, WS!given, docVars
<1> QED BY <1>5, <1>7, <1>8, <1>9

LEMMA RecordRefines ==
    ASSUME IInv, Record, NEW x \in Steps, x = offer
    PROVE  WS!Fail(x) \/ WS!Degrade \/ UNCHANGED WS!vars
<1>1. /\ Recording(x) /\ completed' = completed \cup {x}
      /\ processStatus' = IF Overwrites(processStatus, Judged(ended[x]))
                          THEN Judged(ended[x]) ELSE processStatus
      /\ UNCHANGED <<docVars, submitted, state, final>>
    BY DEF Record, RecordStatus, Recording
<1>2. x \notin completed /\ x \in submitted
    BY <1>1 DEF IInv, StepSound
<1>3. WS!Worsen \/ UNCHANGED processStatus
    <2>1. \A i \in 1..Len(final) : final[i] # "success"
        BY <1>2, NotReported
    <2> QED BY <1>1, <2>1 DEF WS!Worsen, WS!Failures, Overwrites, Failures
<1>4. \A t \in Steps \ {x} : PhaseOf(t)' = PhaseOf(t)
    BY <1>1 DEF PhaseOf
<1>5. CASE PhaseOf(x)' = PhaseOf(x)
    BY <1>1, <1>3, <1>4, <1>5 DEF WS!Degrade, WS!vars, WS!given, docVars
<1>6. CASE PhaseOf(x)' # PhaseOf(x)
    <2>1. PhaseOf(x) = "active" /\ PhaseOf(x)' = "failed"
        BY <1>1, <1>2, <1>6 DEF PhaseOf
    <2>2. WS!Move(x, "failed")
        BY <1>1, <1>4, <2>1, OneMoves
    <2> QED BY <1>1, <1>3, <2>1, <2>2 DEF WS!Fail, WS!given, docVars
<1> QED BY <1>5, <1>6

LEMMA AdvanceRefines ==
    ASSUME IInv, IInv', Advance
    PROVE  WS!Next \/ UNCHANGED WS!vars
<1>1. CASE Generate \/ MakeRaises
    BY <1>1, GenerateRefines
<1>2. CASE Callback
    BY <1>2, CallbackRefines DEF WS!Next, Callback, IInv, Positions
<1>3. CASE Record
    BY <1>3, RecordRefines DEF WS!Next, Record, IInv, Positions
<1>4. CASE Finish
    <2>1. /\ UNCHANGED stepVars
          /\ DoOutputCallback \/ UNCHANGED <<processStatus, final>>
        BY <1>4 DEF Finish, ReceiveFinish
    <2> QED BY <2>1, ReportRefines DEF WS!Next
<1>5. CASE \/ Take \/ Leave \/ Run \/ RunRaises \/ RunEmbedded \/ Resume
           \/ PgPoll \/ PgRefuse \/ PgCreated
    <2>1. UNCHANGED seen
        BY <1>5 DEF seen, Take, Leave, Run, RunRaises, RunEmbedded, Resume, PgPoll,
                    PgRefuse, PgCreated, GenResume, wfVars, stepVars, cbVars
    <2> QED BY <2>1, UnseenStutters
<1>6. CASE PgBroken
    <2>1. /\ offer \in Steps /\ gpc = "yield" /\ Ahead(offer)
          /\ processStatus' = "permanentFail" /\ UNCHANGED <<stepVars, final>>
        BY <1>6 DEF PgBroken, PgResumed, Ahead, IInv, Positions
    <2>2. offer \notin completed
        BY <2>1 DEF IInv, StepSound
    <2>3. WS!Worsen
        BY <2>1, <2>2, NotReported DEF WS!Worsen, WS!Failures
    <2>4. UNCHANGED [s \in Steps |-> PhaseOf(s)]
        BY <2>1 DEF PhaseOf, stepVars
    <2> QED BY <2>1, <2>3, <2>4 DEF WS!Next, WS!Degrade, WS!given, docVars, stepVars
<1> QED BY <1>1, <1>2, <1>3, <1>4, <1>5, <1>6 DEF Advance, PgStep

LEMMA InitRefines == Init => WS!Init
<1> SUFFICES ASSUME Init PROVE WS!Init
    OBVIOUS
<1>1. \A s \in Steps : PhaseOf(s) = "idle"
    BY DEF Init, WfInit, PhaseOf, Done, Failures
<1> QED BY <1>1 DEF Init, WfInit, WS!Init

LEMMA StepRefines ==
    IInv /\ IInv' /\ [Next]_vars => [WS!Next]_(WS!vars)
<1> SUFFICES ASSUME IInv, IInv', [Next]_vars
             PROVE  WS!Next \/ UNCHANGED WS!vars
    OBVIOUS
<1>1. CASE UNCHANGED vars
    BY <1>1, UnseenStutters DEF vars, wfVars, stepVars, cbVars, seen
<1> QED BY <1>1, AdvanceRefines DEF Next, Finished

\* The single-threaded executor keeps every promise of WorkflowSpec, process
\* generators included: whoever submits a workflow cannot tell the executors
\* apart by them.
THEOREM SerialImplements == Spec => ImplementsWorkflow
<1>1. Init => WS!Init
    BY InitRefines
<1>2. IInv /\ IInv' /\ [Next]_vars => [WS!Next]_(WS!vars)
    BY StepRefines
<1> QED BY <1>1, <1>2, SerialInvariance, PTL DEF Spec, WS!Spec, ImplementsWorkflow
=============================================================================
