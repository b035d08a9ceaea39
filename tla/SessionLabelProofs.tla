-------------------------- MODULE SessionLabelProofs --------------------------
(***************************************************************************)
(* Proof that a row's label never goes back to an older text, for any      *)
(* number of panes and of inputs.  The inductive invariant says that the   *)
(* label and every pending recomputation are no newer than the terminals,  *)
(* that pending recomputations have distinct generations, and that the one *)
(* that may still be applied is not older than the label.                  *)
(***************************************************************************)
EXTENDS SessionLabel, TLAPS

pending == expanding \cup expanded

(* A context is one the node could have gathered by now. *)
Past(context) ==
    /\ context.template =< template
    /\ context.title =< title[context.pane]
    /\ context.cwd =< cwd[context.pane]

PastInv == Past(label) /\ \A r \in pending : Past(r.context)

GenerationInv ==
    /\ \A r \in pending : r.generation =< generation
    /\ \A r, s \in pending : r.generation = s.generation => r = s

NewestInv == \A r \in pending : r.generation = generation => NotOlder(label, r.context)

LabelInv == LabelTypeOK /\ PastInv /\ GenerationInv /\ NewestInv

-------------------------------------------------------------------------------
(* The initial placeholder and the first recomputation satisfy the invariant. *)
LEMMA LabelInit == Init => LabelInv
<1> SUFFICES ASSUME Init PROVE LabelInv
  OBVIOUS
<1> USE DEF Init, Gathered, _GatherSessionLabelContext
<1>1. LabelTypeOK
  BY DEF LabelTypeOK, Context, Recomputation
<1>2. PastInv
  BY DEF PastInv, Past, pending
<1>3. GenerationInv
  BY DEF GenerationInv, pending
<1>4. NewestInv
  BY DEF NewestInv, NotOlder, pending
<1> QED BY <1>1, <1>2, <1>3, <1>4 DEF LabelInv

-------------------------------------------------------------------------------
(* Starting recomputations keeps the invariant when nothing has gone back. *)
LEMMA RecomputeKeeps ==
    ASSUME LabelInv, NEW n \in Nat, Recompute(n),
           template' \in Nat, template =< template', active' \in Panes,
           UNCHANGED <<title, cwd>>
    PROVE  /\ PastInv' /\ GenerationInv' /\ NewestInv'
           /\ generation' \in Nat /\ label' \in Context
           /\ expanding' \subseteq Recomputation /\ expanded' \subseteq Recomputation
<1> DEFINE now == Gathered(template', active')
           started == [generation : (generation + 1)..(generation + n), context : {now}]
<1>1. /\ now \in Context
      /\ now.template =< template' /\ now.title =< title'[now.pane] /\ now.cwd =< cwd'[now.pane]
  BY DEF LabelInv, LabelTypeOK, Gathered, Context
<1>2. NotOlder(label, now)
  BY DEF LabelInv, LabelTypeOK, PastInv, Past, NotOlder, Gathered, Context
<1>3. /\ \A r \in started : r.context = now /\ r.generation \in Nat /\ r.generation > generation
                            /\ r.generation =< generation + n /\ r \in Recomputation
      /\ \A r, s \in started : r.generation = s.generation => r = s
  <2> HIDE DEF now
  <2> QED BY <1>1 DEF LabelInv, LabelTypeOK, Recomputation
<1>4. pending' = pending \cup started /\ label' = label /\ generation' = generation + n
  BY DEF Recompute, pending
<1>5. generation \in Nat /\ pending \subseteq Recomputation
  BY DEF LabelInv, LabelTypeOK, pending
<1> HIDE DEF now, started
<1>6. PastInv'
  <2>1. \A c \in Context : Past(c) => Past(c)'
    BY DEF Past, LabelInv, LabelTypeOK, Context
  <2>2. label \in Context /\ \A r \in pending : r.context \in Context
    BY <1>5 DEF LabelInv, LabelTypeOK, Recomputation
  <2> SUFFICES Past(label)' /\ \A r \in pending' : Past(r.context)'
    BY DEF PastInv, Past
  <2>3. Past(label)'
    BY <2>1, <2>2, <1>4 DEF LabelInv, PastInv, Past
  <2>4. ASSUME NEW r \in pending' PROVE Past(r.context)'
    <3>1. CASE r \in pending
      BY <3>1, <2>1, <2>2 DEF LabelInv, PastInv
    <3>2. CASE r \in started
      BY <3>2, <1>1, <1>3 DEF Past
    <3> QED BY <3>1, <3>2, <1>4
  <2> QED BY <2>3, <2>4
<1>7. GenerationInv'
  BY <1>3, <1>4, <1>5 DEF LabelInv, GenerationInv, Recomputation
<1>8. NewestInv'
  <2> SUFFICES ASSUME NEW r \in pending', r.generation = generation'
               PROVE  NotOlder(label, r.context)
    BY <1>4 DEF NewestInv, NotOlder
  <2>1. CASE r \in started
    BY <2>1, <1>2, <1>3
  <2>2. CASE r \in pending
    <3>1. r.generation =< generation /\ r.generation \in Nat
      BY <2>2, <1>5 DEF LabelInv, GenerationInv, Recomputation
    <3>2. r.generation = generation
      BY <3>1, <1>4, <1>5
    <3> QED BY <3>2, <2>2 DEF LabelInv, NewestInv
  <2> QED BY <2>1, <2>2, <1>4
<1>9. expanding' \subseteq Recomputation /\ expanded' \subseteq Recomputation /\ label' \in Context
  BY <1>3 DEF started, now, Recompute, LabelInv, LabelTypeOK
<1> QED BY <1>4, <1>5, <1>6, <1>7, <1>8, <1>9

(* A step that moves neither the label nor the pending recomputations keeps the
   invariant when the terminals and the template only advance. *)
LEMMA AdvanceKeeps ==
    ASSUME LabelInv, UNCHANGED labelVars,
           template' \in Nat, template =< template',
           title' \in [Panes -> Nat], cwd' \in [Panes -> Nat],
           \A p \in Panes : title[p] =< title'[p] /\ cwd[p] =< cwd'[p]
    PROVE  PastInv' /\ GenerationInv' /\ NewestInv'
<1>1. pending' = pending /\ label' = label /\ generation' = generation
  BY DEF labelVars, pending
<1>2. \A c \in Context : Past(c) => Past(c)'
  BY DEF Past, LabelInv, LabelTypeOK, Context
<1>3. label \in Context /\ \A r \in pending : r.context \in Context
  BY DEF LabelInv, LabelTypeOK, Recomputation, pending
<1>4. PastInv'
  BY <1>1, <1>2, <1>3 DEF LabelInv, PastInv, Past
<1>5. GenerationInv'
  BY <1>1 DEF LabelInv, GenerationInv
<1>6. NewestInv'
  BY <1>1 DEF LabelInv, NewestInv, NotOlder
<1> QED BY <1>4, <1>5, <1>6

(* Every step keeps the invariant. *)
LEMMA LabelNext == LabelInv /\ [Next]_vars => LabelInv'
<1> SUFFICES ASSUME LabelInv, [Next]_vars PROVE LabelInv'
  OBVIOUS
<1> USE DEF LabelTypeOK
<1>t. LabelTypeOK
  BY DEF LabelInv
<1>1. ASSUME NEW p \in Panes, NEW changes \in SUBSET {"title", "cwd"}, Write(p, changes)
      PROVE  LabelInv'
  <2>1. LabelTypeOK'
    BY <1>t, <1>1 DEF Write, tabVars, nodeVars, labelVars
  <2>2. PastInv' /\ GenerationInv' /\ NewestInv'
    <3>1. /\ UNCHANGED labelVars /\ template' = template
          /\ \A x \in Panes : title[x] =< title'[x] /\ cwd[x] =< cwd'[x]
      BY <1>t, <1>1 DEF Write, nodeVars
    <3> QED BY <1>t, <2>1, <3>1, AdvanceKeeps
  <2> QED BY <2>1, <2>2 DEF LabelInv
<1>2. ASSUME NEW p \in Panes, OutputIdle(p) \/ TimerFires(p) PROVE LabelInv'
  <2>1. LabelTypeOK'
    BY <1>t, <1>2 DEF OutputIdle, TimerFires, terminalVars, tabVars, nodeVars, labelVars
  <2>2. UNCHANGED <<title, cwd, template>> /\ UNCHANGED labelVars
    BY <1>2 DEF OutputIdle, TimerFires, terminalVars, nodeVars
  <2> QED BY <1>t, <2>1, <2>2, AdvanceKeeps DEF LabelInv
<1>3. ASSUME NEW condition, RecomputeIf(condition), UNCHANGED <<title, cwd, template, active>>
      PROVE  /\ PastInv' /\ GenerationInv' /\ NewestInv'
             /\ generation' \in Nat /\ label' \in Context
             /\ expanding' \subseteq Recomputation /\ expanded' \subseteq Recomputation
  <2>1. CASE Recompute(1)
    BY <1>t, <1>3, <2>1, RecomputeKeeps
  <2>2. CASE UNCHANGED labelVars
    BY <1>t, <1>3, <2>2, AdvanceKeeps DEF labelVars
  <2> QED BY <1>3, <2>1, <2>2 DEF RecomputeIf
<1>4. ASSUME NEW p \in Panes, IdleRaised(p) PROVE LabelInv'
  <2>1. /\ UNCHANGED <<title, cwd, writing, armed, titleDue, tabVars, nodeVars, inputs>>
        /\ queued' \in [Panes -> Nat] /\ RecomputeIf(hooked = p)
    BY <1>t, <1>4 DEF IdleRaised, terminalVars
  <2> QED BY <1>t, <1>3, <2>1 DEF LabelInv, tabVars, nodeVars
<1>5. ASSUME NEW p \in Panes, TitleUpdates(p) PROVE LabelInv'
  <2>1. /\ UNCHANGED <<title, cwd, writing, armed, queued, active, runtimeText, nodeVars, inputs>>
        /\ titleDue' \subseteq Panes /\ RecomputeIf(tabTitle' # tabTitle)
    BY <1>t, <1>5 DEF TitleUpdates, terminalVars
  <2> QED BY <1>t, <1>3, <2>1 DEF LabelInv, nodeVars
<1>6. ASSUME RenameTab PROVE LabelInv'
  <2>1. /\ UNCHANGED <<title, cwd, writing, armed, queued, titleDue, active, nodeVars>>
        /\ runtimeText' \in BOOLEAN /\ inputs' \in Nat /\ RecomputeIf(tabTitle' # tabTitle)
    BY <1>t, <1>6 DEF RenameTab, terminalVars
  <2> QED BY <1>t, <1>3, <2>1 DEF LabelInv, nodeVars
<1>7. ASSUME NEW p \in Panes, FocusPane(p) PROVE LabelInv'
  <2>1. /\ UNCHANGED <<title, cwd, writing, armed, queued, titleDue, runtimeText, alive, template>>
        /\ active' = p /\ inputs' \in Nat /\ hooked' = IF alive THEN p ELSE NoPane
    BY <1>t, <1>7 DEF FocusPane, terminalVars
  <2>2. \/ \E n \in {1, 2} : Recompute(n)
        \/ UNCHANGED labelVars
    BY <1>7 DEF FocusPane
  <2>3. CASE \E n \in {1, 2} : Recompute(n)
    <3> PICK n \in {1, 2} : Recompute(n)
      BY <2>3
    <3> n \in Nat
      OBVIOUS
    <3> QED BY <1>t, <2>1, RecomputeKeeps DEF LabelInv
  <2>4. CASE UNCHANGED labelVars
    BY <1>t, <2>1, <2>4, AdvanceKeeps DEF LabelInv, labelVars
  <2> QED BY <2>2, <2>3, <2>4
<1>8. ASSUME SaveEdit PROVE LabelInv'
  <2>1. /\ UNCHANGED <<title, cwd, writing, armed, queued, titleDue, active, runtimeText, hooked, alive>>
        /\ template' \in Nat /\ template =< template' /\ inputs' \in Nat /\ Recompute(1)
    BY <1>t, <1>8 DEF SaveEdit, terminalVars, tabVars
  <2> QED BY <1>t, <2>1, RecomputeKeeps DEF LabelInv
<1>9. ASSUME RemoveNode PROVE LabelInv'
  <2>1. LabelTypeOK'
    BY <1>t, <1>9 DEF RemoveNode, terminalVars, tabVars, labelVars
  <2>2. UNCHANGED <<title, cwd, template>> /\ UNCHANGED labelVars
    BY <1>9 DEF RemoveNode, terminalVars
  <2> QED BY <1>t, <2>1, <2>2, AdvanceKeeps DEF LabelInv
<1>10. ASSUME NEW r \in expanding, ComputeLabel(r) PROVE LabelInv'
  <2>1. LabelTypeOK'
    BY <1>t, <1>10 DEF ComputeLabel, terminalVars, tabVars, nodeVars
  <2>2. /\ pending' = pending
        /\ UNCHANGED <<title, cwd, template, label, generation>>
    BY <1>10 DEF ComputeLabel, terminalVars, nodeVars, pending
  <2>3. PastInv'
    BY <2>2 DEF LabelInv, PastInv, Past
  <2>4. GenerationInv'
    BY <2>2 DEF LabelInv, GenerationInv
  <2>5. NewestInv'
    BY <2>2 DEF LabelInv, NewestInv, NotOlder
  <2> QED BY <2>1, <2>3, <2>4, <2>5 DEF LabelInv
<1>11. ASSUME NEW r \in expanded, ApplyLabel(r) PROVE LabelInv'
  <2>1. LabelTypeOK'
    BY <1>t, <1>11 DEF ApplyLabel, terminalVars, tabVars, nodeVars, Recomputation
  <2>2. /\ pending' \subseteq pending /\ r \in pending
        /\ UNCHANGED <<title, cwd, template, generation>>
        /\ label' = label \/ (label' = r.context /\ r.generation = generation)
    BY <1>11 DEF ApplyLabel, terminalVars, nodeVars, pending
  <2>3. PastInv'
    BY <2>2 DEF LabelInv, PastInv, Past
  <2>4. GenerationInv'
    BY <2>2 DEF LabelInv, GenerationInv
  <2>5. NewestInv'
    <3> SUFFICES ASSUME NEW s \in pending', s.generation = generation
                 PROVE  NotOlder(label', s.context)
      BY <2>2 DEF NewestInv, NotOlder
    <3>1. CASE label' = label
      BY <2>2, <3>1 DEF LabelInv, NewestInv
    <3>2. CASE label' = r.context /\ r.generation = generation
      <4>1. s = r
        BY <2>2, <3>2 DEF LabelInv, GenerationInv
      <4>2. r.context \in Context
        BY <1>t DEF Recomputation
      <4> QED BY <3>2, <4>1, <4>2 DEF NotOlder, Context
    <3> QED BY <2>2, <3>1, <3>2
  <2> QED BY <2>1, <2>3, <2>4, <2>5 DEF LabelInv
<1>12. CASE UNCHANGED vars
  <2>1. LabelTypeOK'
    BY <1>t, <1>12 DEF vars, terminalVars, tabVars, nodeVars, labelVars
  <2> QED BY <1>t, <1>12, <2>1, AdvanceKeeps DEF LabelInv, vars, terminalVars, nodeVars
<1> QED
  BY <1>1, <1>2, <1>4, <1>5, <1>6, <1>7, <1>8, <1>9, <1>10, <1>11, <1>12 DEF Next

(* The label and the pending recomputations keep their types, and a living
   node listens to the OutputIdle of the tab's active control. *)
THEOREM LabelTypeCorrect == Spec => []LabelTypeOK
<1>1. LabelInv => LabelTypeOK
  BY DEF LabelInv
<1> QED BY LabelInit, LabelNext, <1>1, PTL DEF Spec

(* No order of the background expansions makes a label go back. *)
THEOREM LabelNeverGoesBack == Spec => LabelNeverReverts
<1>1. LabelInv /\ [Next]_vars => [NotOlder(label, label')]_vars
  <2> SUFFICES ASSUME LabelInv, Next PROVE NotOlder(label, label')
    OBVIOUS
  <2>1. label' = label \/ \E r \in expanded : label' = r.context /\ r.generation = generation
    BY DEF Next, Write, OutputIdle, TimerFires, IdleRaised, TitleUpdates, FocusPane, RenameTab,
           SaveEdit, RemoveNode, ComputeLabel, ApplyLabel, Recompute, RecomputeIf, labelVars
  <2>2. label \in Context
    BY DEF LabelInv, LabelTypeOK
  <2> QED BY <2>1, <2>2 DEF LabelInv, NewestInv, NotOlder, pending, Context
<1> QED BY LabelInit, LabelNext, <1>1, PTL DEF Spec, LabelNeverReverts
===============================================================================
