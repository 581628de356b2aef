-------------------------- MODULE PreflightProofs ---------------------------
(***************************************************************************)
(* Proofs about Preflight.tla, for every set of documents, pages and       *)
(* client headers and without the bound on the number of documents playing *)
(* any part.                                                               *)
(***************************************************************************)
EXTENDS Preflight, TLAPS

(* What the parser makes of the cells is neither pending nor failed: an    *)
(* outcome of plansOf ends the evaluation with a plan.                     *)
LEMMA OutcomesArePlans ==
    ASSUME NEW docs, NEW r \in plansOf(docs)
    PROVE  r # Pending /\ r # Failed
<1>1. r.kind = "plan"
  BY DEF plansOf, Planned
<1>2. Pending.kind = "pending" /\ Failed.kind = "failed"
  BY DEF Pending, Failed
<1> QED BY <1>1, <1>2

LEMMA PendingIsNotFailed == Pending # Failed
<1>1. Pending.kind = "pending" /\ Failed.kind = "failed"
  BY DEF Pending, Failed
<1> QED BY <1>1

(* The documents of a page extend a sequence of documents. *)
LEMMA DocumentsExtend ==
    ASSUME NEW s \in Seq(Cells), NEW page \in Pages
    PROVE  /\ s \o documents(page) \in Seq(Cells)
           /\ Len(s) <= Len(s \o documents(page))
           /\ \A i \in 1 .. Len(s) : (s \o documents(page))[i] = s[i]
<1>1. documents(page) \in Seq(Cells)
  BY PreflightAssumption
<1>2. PICK d \in Seq(Cells) : d = documents(page)
  BY <1>1
<1>3. /\ s \o d \in Seq(Cells)
      /\ Len(s) <= Len(s \o d)
      /\ \A i \in 1 .. Len(s) : (s \o d)[i] = s[i]
  OBVIOUS
<1> QED BY <1>2, <1>3

(* A page of the instance; what SomePage denotes. *)
LEMMA SomePageIsOne == SomePage \in Pages
  BY PreflightAssumption DEF SomePage

-----------------------------------------------------------------------------
(* Every step of the goroutine and of its environment keeps the types: in  *)
(* particular only documents, never empty rows, are collected as cells.    *)
THEOREM TypeCorrect == Spec => []TypeOK
<1>1. Init => TypeOK
  <2>1. <<>> \in Seq(Cells)
    OBVIOUS
  <2> QED BY <2>1 DEF Init, TypeOK
<1>2. TypeOK /\ [Next]_vars => TypeOK'
  <2> SUFFICES ASSUME TypeOK, [Next]_vars PROVE TypeOK'
    OBVIOUS
  <2>1. CASE Send
    BY <2>1 DEF Send, TypeOK
  <2>2. CASE Abort
    BY <2>2 DEF Abort, TypeOK
  <2>3. CASE Read
    <3>1. reply.page \in Pages
      BY <2>3 DEF Read, TypeOK
    <3>2. collected(reply.page) \in Seq(Cells)
      BY <3>1, DocumentsExtend DEF collected, TypeOK
    <3> QED BY <2>3, <3>2 DEF Read, TypeOK
  <2>4. CASE Expire
    BY <2>4 DEF Expire, TypeOK
  <2>5. ASSUME NEW page \in Pages, Answer(page) PROVE TypeOK'
    <3>1. reported' \in Seq(Cells)
      BY <2>5, DocumentsExtend DEF Answer, TypeOK
    <3>2. page.more \in BOOLEAN
      BY PreflightAssumption
    <3> QED BY <2>5, <3>1, <3>2 DEF Answer, Reply, TypeOK
  <2>6. ASSUME NEW page \in Pages, Cut(page) PROVE TypeOK'
    BY <2>6 DEF Cut, Reply, TypeOK
  <2>7. CASE Refuse(SomePage)
    BY <2>7, SomePageIsOne DEF Refuse, Reply, TypeOK
  <2>8. ASSUME NEW status \in {0, 503}, Down(status, SomePage) PROVE TypeOK'
    BY <2>8, SomePageIsOne DEF Down, Reply, TypeOK
  <2>9. CASE UNCHANGED vars
    BY <2>9 DEF vars, TypeOK
  <2> QED BY <2>1, <2>2, <2>3, <2>4, <2>5, <2>6, <2>7, <2>8, <2>9 DEF Next
<1> QED BY <1>1, <1>2, PTL DEF Spec

-----------------------------------------------------------------------------
(* ChainInv is inductive: between requests the cells of runStatement are   *)
(* the documents reported and the chain is still open; while a reply is    *)
(* read they differ by that page alone, and a reply that makes the         *)
(* evaluation fail has a cause outside the proxy.                          *)
LEMMA ChainInit == Init => ChainInv
<1>1. ~invalid(<<>>)
  BY DEF invalid
<1> QED BY <1>1, PendingIsNotFailed DEF Init, ChainInv, Pending, Failed

LEMMA ChainStep == TypeOK /\ ChainInv /\ [Next]_vars => ChainInv'
<1> SUFFICES ASSUME TypeOK, ChainInv, [Next]_vars PROVE ChainInv'
  OBVIOUS
<1> USE PendingIsNotFailed
<1>1. CASE Send
  BY <1>1 DEF Send, ChainInv
<1>2. CASE Abort
  BY <1>2 DEF Abort, ChainInv
<1>3. CASE Read
  <2>1. pc = "read" /\ reply.page \in Pages
    BY <1>3 DEF Read, TypeOK
  <2>2. CASE badReply(reply)
    BY <1>3, <2>1, <2>2 DEF Read, ChainInv
  <2>3. CASE ~badReply(reply)
    <3> DEFINE all == collected(reply.page)
    <3>1. all = reported /\ ended = ~reply.page.more
      BY <2>1, <2>3 DEF ChainInv
    <3>2. CASE lastPage(reply.page) /\ invalid(all)
      BY <1>3, <2>1, <2>3, <3>1, <3>2 DEF Read, ChainInv, plansOf
    <3>3. CASE lastPage(reply.page) /\ ~invalid(all)
      <4>1. result' \in plansOf(all) /\ pc' = "done"
        BY <1>3, <2>3, <3>3 DEF Read
      <4> QED BY <1>3, <2>1, <2>3, <3>1, <4>1, OutcomesArePlans DEF Read, ChainInv
    <3>4. CASE ~lastPage(reply.page)
      BY <1>3, <2>1, <2>3, <3>1, <3>4 DEF Read, ChainInv, lastPage
    <3> QED BY <3>2, <3>3, <3>4
  <2> QED BY <2>2, <2>3
<1>4. CASE Expire
  BY <1>4 DEF Expire, ChainInv, collected
<1>5. ASSUME NEW page \in Pages, Answer(page) PROVE ChainInv'
  <2>1. cells = reported /\ reported \in Seq(Cells) /\ documents(page) \in Seq(Cells)
    BY <1>5, PreflightAssumption DEF Answer, Reply, ChainInv, TypeOK
  <2>2. invalid(reported') => invalid(reported) \/ invalid(documents(page))
    <3>1. PICK s \in Seq(Cells), d \in Seq(Cells) : s = reported /\ d = documents(page)
      BY <2>1
    <3>2. reported' = s \o d
      BY <1>5, <3>1 DEF Answer
    <3>3. ASSUME NEW i \in DOMAIN (s \o d), (s \o d)[i].kind = "invalid"
          PROVE  invalid(s) \/ invalid(d)
      <4>1. i \in 1 .. Len(s) + Len(d)
        BY <3>3
      <4>2. CASE i <= Len(s)
        BY <3>3, <4>1, <4>2 DEF invalid
      <4>3. CASE i > Len(s)
        <5>1. i - Len(s) \in DOMAIN d /\ (s \o d)[i] = d[i - Len(s)]
          BY <4>1, <4>3
        <5> QED BY <3>3, <5>1 DEF invalid
      <4> QED BY <4>1, <4>2, <4>3
    <3> QED BY <3>1, <3>2, <3>3 DEF invalid
  <2>3. badReply(reply') => blamed'
    BY <1>5 DEF Answer, Reply, badReply
  <2>4. reply'.page = page /\ cells' = cells
    BY <1>5 DEF Answer, Reply
  <2>5. reported' = cells' \o documents(reply'.page) /\ ended' = ~reply'.page.more
    BY <1>5, <2>1, <2>4 DEF Answer
  <2>6. pc' = "read" /\ result' = result /\ ctxDone' = ctxDone /\ pc = "wait"
    BY <1>5 DEF Answer, Reply
  <2>7. blamed => blamed'
    BY <1>5 DEF Answer
  <2>8. invalid(reported') => blamed'
    BY <1>5, <2>2, <2>7 DEF Answer, ChainInv
  <2> QED BY <2>3, <2>5, <2>6, <2>7, <2>8 DEF ChainInv, collected
<1>6. ASSUME NEW page \in Pages, Cut(page) PROVE ChainInv'
  BY <1>6 DEF Cut, Reply, ChainInv, badReply
<1>7. CASE Refuse(SomePage)
  <2>1. pc = "wait" /\ sent = copyHeaders(client)
    BY <1>7 DEF Refuse, Reply, ChainInv
  <2>2. "x-forwarded-for" \notin sent
    BY <2>1 DEF copyHeaders, isManagedHeader
  <2>3. "authorization" \in client => "authorization" \in sent
    BY <2>1 DEF copyHeaders, isManagedHeader
  <2>4. blamed'
    BY <1>7, <2>2, <2>3 DEF Refuse, accepted
  <2> QED BY <1>7, <2>4 DEF Refuse, Reply, ChainInv, badReply
<1>8. ASSUME NEW status \in {0, 503}, Down(status, SomePage) PROVE ChainInv'
  BY <1>8 DEF Down, Reply, ChainInv, badReply
<1>9. CASE UNCHANGED vars
  BY <1>9 DEF vars, ChainInv, collected
<1> QED BY <1>1, <1>2, <1>3, <1>4, <1>5, <1>6, <1>7, <1>8, <1>9 DEF Next

(* The invariant holds throughout every evaluation. *)
THEOREM ChainCorrect == Spec => []ChainInv
<1> QED BY ChainInit, ChainStep, TypeCorrect, PTL DEF Spec

(* No evaluation fails open through a fault of the proxy's own: not for    *)
(* the headers it mirrors, not for pages without documents.                *)
THEOREM FailuresHaveACause == Spec => []FailsForCause
<1>1. ChainInv => FailsForCause
  BY DEF ChainInv, FailsForCause
<1> QED BY <1>1, ChainCorrect, PTL

-----------------------------------------------------------------------------
(* runStatement and parsePlanCells implement Evaluation.tla: the chain of  *)
(* pages yields the plan of everything that was reported, or nothing.      *)
THEOREM RefinesEvaluation == Spec => AllOrNothing
<1>1. Init => Abstract!EvalInit
  BY DEF Init, Abstract!EvalInit
<1>2. TypeOK /\ ChainInv /\ [Next]_vars => [Abstract!EvalNext]_(Abstract!evalVars)
  <2> SUFFICES ASSUME TypeOK, ChainInv, [Next]_vars
               PROVE  [Abstract!EvalNext]_(Abstract!evalVars)
    OBVIOUS
  <2> USE DEF Abstract!evalVars
  <2>1. CASE Send
    BY <2>1 DEF Send
  <2>2. CASE Abort
    <3>1. result = Pending
      BY <2>2 DEF Abort, ChainInv
    <3> QED BY <2>2, <3>1 DEF Abort, Abstract!EvalNext, Abstract!Fail
  <2>3. CASE Read
    <3>1. result = Pending
      BY <2>3 DEF Read, ChainInv
    <3>2. CASE result' = Failed
      BY <2>3, <3>1, <3>2 DEF Read, Abstract!EvalNext, Abstract!Fail
    <3>3. CASE result' = result
      BY <2>3, <3>3 DEF Read
    <3>4. CASE result' # Failed /\ result' # result
      <4>1. /\ ~badReply(reply) /\ lastPage(reply.page)
            /\ result' \in plansOf(collected(reply.page))
            /\ UNCHANGED <<reported, ended>>
        BY <2>3, <3>4 DEF Read
      <4>2. reported = collected(reply.page) /\ ended
        BY <2>3, <4>1 DEF Read, ChainInv, lastPage
      <4> QED BY <3>1, <4>1, <4>2 DEF Abstract!EvalNext, Abstract!Finish
    <3> QED BY <3>2, <3>3, <3>4
  <2>4. CASE Expire
    BY <2>4 DEF Expire
  <2>5. ASSUME NEW page \in Pages, Answer(page)
        PROVE  [Abstract!EvalNext]_(Abstract!evalVars)
    <3>1. result = Pending /\ ~ended /\ result' = result
      BY <2>5 DEF Answer, Reply, ChainInv
    <3>2. ended' \in BOOLEAN
      BY <2>5, PreflightAssumption DEF Answer
    <3>3. reported' = reported \o documents(page) /\ reported \in Seq(Cells)
      BY <2>5 DEF Answer, TypeOK
    <3> QED BY <3>1, <3>2, <3>3, DocumentsExtend DEF Abstract!EvalNext, Abstract!Report
  <2>6. ASSUME NEW page \in Pages, Cut(page)
        PROVE  [Abstract!EvalNext]_(Abstract!evalVars)
    BY <2>6 DEF Cut, Reply
  <2>7. CASE Refuse(SomePage)
    BY <2>7 DEF Refuse, Reply
  <2>8. ASSUME NEW status \in {0, 503}, Down(status, SomePage)
        PROVE  [Abstract!EvalNext]_(Abstract!evalVars)
    BY <2>8 DEF Down, Reply
  <2>9. CASE UNCHANGED vars
    BY <2>9 DEF vars
  <2> QED BY <2>1, <2>2, <2>3, <2>4, <2>5, <2>6, <2>7, <2>8, <2>9 DEF Next
<1> QED BY <1>1, <1>2, TypeCorrect, ChainCorrect, PTL
        DEF Spec, AllOrNothing, Abstract!EvalSpec
=============================================================================
