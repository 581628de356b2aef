---------------------------- MODULE SessionProofs ----------------------------
(***************************************************************************)
(* Proofs about Session.tla, for every number of conversations, pages,     *)
(* coordinators and clients, and any size of the rewriting window.         *)
(***************************************************************************)
EXTENDS Session, TLAPS

(* Updates of a conversation that keep its type. *)
LEMMA EndedType ==
    ASSUME NEW q \in ConvType, NEW o \in Outcomes
    PROVE  Ended(q, o) \in ConvType /\ Ended(q, o).pc = "done"
  BY DEF Ended, ConvType

LEMMA IdleType == Idle \in ConvType
  BY DEF Idle, ConvType, Outcomes

LEMMA FramedType ==
    ASSUME NEW q \in ConvType, NEW d \in Int, NEW b \in Int
    PROVE  [q EXCEPT !.pages = @ + 1, !.declared = d, !.body = b] \in ConvType
<1>1. q.pages \in Nat
  BY DEF ConvType
<1>2. PICK n \in Nat : n = q.pages + 1
  BY <1>1
<1>3. [q EXCEPT !.pages = n, !.declared = d, !.body = b] \in ConvType
  BY DEF ConvType
<1> QED BY <1>2, <1>3

LEMMA NamedType ==
    ASSUME NEW q \in ConvType, NEW s \in {"http", "https"},
           NEW a \in Upstreams \union {"proxy"}
    PROVE  [q EXCEPT !.pc = "page", !.scheme = s, !.authority = a] \in ConvType
  BY DEF ConvType

(* The lengths of a page, its head and its rewritten body are integers. *)
LEMMA LengthType ==
    ASSUME NEW q, NEW page \in Pages
    PROVE  /\ page.len \in Int /\ Window \in Int
           /\ headLength(page) \in Int /\ growth(q, page) \in Int
           /\ contentLength(q, page) \in Int /\ bodyLength(q, page) \in Int
<1>1. page.len \in Nat /\ Window \in Nat /\ Growth \in Int
  BY SessionAssumption
<1>2. headLength(page) \in Int /\ growth(q, page) \in Int
  BY <1>1 DEF headLength, growth
<1> QED BY <1>1, <1>2 DEF contentLength, bodyLength, Unknown

(* One conversation changes, to a value of its type. *)
LEMMA BecomeType ==
    ASSUME TypeOK, NEW c \in Clients, NEW q \in ConvType, Become(c, q),
           q.pc = "upstream" => q.target \in Upstreams,
           faults' \in [Clients -> SUBSET Faults]
    PROVE  TypeOK'
<1>1. conv' = [conv EXCEPT ![c] = q] /\ conv \in [Clients -> ConvType]
  BY DEF Become, TypeOK
<1>2. conv' \in [Clients -> ConvType]
  BY <1>1
<1>3. \A k \in Clients : conv'[k].pc = "upstream" => conv'[k].target \in Upstreams
  BY <1>1 DEF TypeOK, At
<1> QED BY <1>2, <1>3 DEF Become, serverVars, TypeOK, At

LEMMA DieType ==
    ASSUME TypeOK, NEW status \in {0, 1}, Die(status),
           faults' \in [Clients -> SUBSET Faults]
    PROVE  TypeOK'
<1>1. ASSUME NEW c \in Clients
      PROVE  conv'[c] \in ConvType /\ conv'[c].pc # "upstream"
  <2>1. conv[c] \in ConvType
    BY DEF TypeOK
  <2>2. Ended(conv[c], "dropped") \in ConvType /\ Ended(conv[c], "dropped").pc = "done"
    BY <2>1, EndedType DEF Outcomes
  <2> QED BY <2>1, <2>2 DEF Die, InFlight
<1>2. conv' \in [Clients -> ConvType]
  BY <1>1 DEF Die
<1> QED BY <1>1, <1>2 DEF Die, TypeOK, At

LEMMA AnswerType ==
    ASSUME TypeOK, NEW c \in Clients, NEW page \in Pages, Answer(c, page)
    PROVE  TypeOK'
<1> DEFINE q == conv[c]
           named == [q EXCEPT !.pages = @ + 1,
                              !.declared = contentLength(q, page),
                              !.body = bodyLength(q, page)]
           a == IF rewritten(q, page) THEN "proxy" ELSE q.target
           n == IF page.more
                THEN [named EXCEPT !.pc = "page", !.scheme = SchemeOf[q.target],
                                   !.authority = a]
                ELSE Ended(named, "finished")
<1>1. q \in ConvType /\ q.target \in Upstreams
  BY DEF TypeOK, Answer
<1>2. named \in ConvType
  BY <1>1, LengthType, FramedType
<1>3. SchemeOf[q.target] \in {"http", "https"}
  BY <1>1, SessionAssumption
<1>4. n \in ConvType /\ n.pc # "upstream"
  <2> HIDE DEF named
  <2>1. CASE page.more
    <3>1. [named EXCEPT !.pc = "page", !.scheme = SchemeOf[q.target],
                        !.authority = a] \in ConvType
      BY <1>1, <1>2, <1>3, NamedType
    <3>2. [named EXCEPT !.pc = "page", !.scheme = SchemeOf[q.target],
                        !.authority = a].pc = "page"
      BY <1>2 DEF ConvType
    <3> QED BY <2>1, <3>1, <3>2
  <2>2. CASE ~page.more
    BY <1>2, <2>2, EndedType DEF Outcomes
  <2> QED BY <2>1, <2>2
<1>5. Become(c, n)
  BY DEF Answer
<1>6. faults' \in [Clients -> SUBSET Faults]
  BY DEF Answer, Blame, TypeOK, Faults
<1> HIDE DEF n
<1> QED BY <1>4, <1>5, <1>6, BecomeType

(* Every step keeps the types of the server's state, of the conversations  *)
(* and of their histories: a request in flight always has a coordinator.   *)
THEOREM TypeCorrect == Spec => []TypeOK
<1>1. Init => TypeOK
  <2>1. Idle.pc = "idle"
    BY DEF Idle
  <2> QED BY <2>1, IdleType DEF Init, TypeOK, At
<1>2. TypeOK /\ [Next]_vars => TypeOK'
  <2> SUFFICES ASSUME TypeOK, [Next]_vars PROVE TypeOK'
    OBVIOUS
  <2>1. CASE Listen
    BY <2>1 DEF Listen, TypeOK, At
  <2>2. CASE ListenerFails
    <3>1. faults' \in [Clients -> SUBSET Faults]
      BY <2>2 DEF ListenerFails, TypeOK, Faults
    <3> QED BY <2>2, <3>1, DieType DEF ListenerFails
  <2>3. CASE Signal
    BY <2>3 DEF Signal, TypeOK, At
  <2>4. CASE Shutdown
    BY <2>4 DEF Shutdown, TypeOK, At
  <2>5. CASE GraceExpires
    BY <2>5 DEF GraceExpires, TypeOK, At
  <2>6. CASE Exit
    <3>1. faults' \in [Clients -> SUBSET Faults]
      BY <2>6 DEF Exit, TypeOK
    <3> QED BY <2>6, <3>1, DieType DEF Exit
  <2>7. ASSUME NEW u \in Upstreams, SwapProxy(u) PROVE TypeOK'
    <3>1. faults' \in [Clients -> SUBSET Faults]
      BY <2>7 DEF SwapProxy, TypeOK, Faults
    <3> QED BY <2>7, <3>1 DEF SwapProxy, serverVars, TypeOK, At
  <2>8. ASSUME NEW c \in Clients,
               \/ \E host \in ClientHosts, headers \in ClientHeaders :
                     Submit(c, host, headers)
               \/ Reject(c) \/ Forward(c) \/ Poll(c) \/ PollFails(c)
               \/ \E page \in Pages : Answer(c, page)
               \/ Refuse(c) \/ Breaks(c)
        PROVE  TypeOK'
    <3>1. conv[c] \in ConvType /\ faults \in [Clients -> SUBSET Faults]
      BY DEF TypeOK
    <3>2. ASSUME NEW o \in Outcomes, Become(c, Ended(conv[c], o)),
                 faults' \in [Clients -> SUBSET Faults]
          PROVE  TypeOK'
      BY <3>1, <3>2, EndedType, BecomeType
    <3>3. ASSUME NEW host \in ClientHosts, NEW headers \in ClientHeaders,
                 Submit(c, host, headers)
          PROVE  TypeOK'
      <4> DEFINE q == [Idle EXCEPT !.pc = "guard", !.host = host, !.headers = headers]
      <4>1. q \in ConvType /\ q.pc = "guard"
        BY IdleType DEF ConvType
      <4> QED BY <3>1, <3>3, <4>1, BecomeType DEF Submit
    <3>4. CASE Reject(c)
      BY <3>1, <3>2, <3>4 DEF Reject, Outcomes
    <3>5. CASE Forward(c)
      <4> DEFINE q == [conv[c] EXCEPT !.pc = "upstream", !.target = proxy, !.home = proxy]
      <4>1. q \in ConvType /\ q.target \in Upstreams
        BY <3>1 DEF ConvType, TypeOK
      <4> QED BY <3>1, <3>5, <4>1, BecomeType DEF Forward
    <3>6. CASE Poll(c)
      <4> DEFINE q == [conv[c] EXCEPT !.pc = "upstream", !.target = proxy]
      <4>1. q \in ConvType /\ q.target \in Upstreams
        BY <3>1 DEF ConvType, TypeOK
      <4> QED BY <3>1, <3>6, <4>1, BecomeType DEF Poll
    <3>7. CASE PollFails(c)
      BY <3>1, <3>2, <3>7 DEF PollFails, Outcomes
    <3>8. ASSUME NEW page \in Pages, Answer(c, page) PROVE TypeOK'
      BY <3>8, AnswerType
    <3>9. CASE Refuse(c)
      BY <3>1, <3>2, <3>9 DEF Refuse, Outcomes
    <3>10. CASE Breaks(c)
      <4>1. faults' \in [Clients -> SUBSET Faults]
        BY <3>1, <3>10 DEF Breaks, Blame, Faults
      <4> QED BY <3>2, <3>10, <4>1 DEF Breaks, Outcomes
    <3> QED BY <2>8, <3>3, <3>4, <3>5, <3>6, <3>7, <3>8, <3>9, <3>10
  <2>9. CASE UNCHANGED vars
    BY <2>9 DEF vars, TypeOK, At
  <2> QED BY <2>1, <2>2, <2>3, <2>4, <2>5, <2>6, <2>7, <2>8, <2>9 DEF Next
<1> QED BY <1>1, <1>2, PTL DEF Spec

-----------------------------------------------------------------------------
(* The inductive invariant SessionInv.                                     *)

(* What each conversation is known for is kept by steps that leave it, the *)
(* proxy and the listener alone and only add faults.                       *)
LEMMA ConvInvKept ==
    ASSUME NEW q, NEW F, NEW G, F \subseteq G, ConvInv(q, F),
           proxy' = proxy, tls' = tls, signalled => signalled', expired => expired'
    PROVE  ConvInv(q, G)'
  BY DEF ConvInv, HasCause, WithinLimits, listenerScheme

(* Ending a conversation for a cause. *)
LEMMA EndedInv ==
    ASSUME NEW q \in ConvType, NEW F, NEW o, ConvInv(q, F),
           HasCause(Ended(q, o), F), WithinLimits(Ended(q, o), F)
    PROVE  ConvInv(Ended(q, o), F)
<1>1. /\ Ended(q, o).pc = "done" /\ Ended(q, o).home = q.home
      /\ Ended(q, o).target = q.target
  BY DEF Ended, ConvType
<1> QED BY <1>1 DEF ConvInv

(* One conversation takes a step and its own invariant is kept: then so is *)
(* the invariant of the whole.                                             *)
LEMMA BecomeInv ==
    ASSUME TypeOK, SessionInv, NEW c \in Clients, NEW q, Become(c, q),
           NEW G, G \in SUBSET Faults, faults' = [faults EXCEPT ![c] = G],
           faults[c] \subseteq G,
           ConvInv(q, G), q.outcome # "dropped" \/ conv[c].outcome = "dropped"
    PROVE  SessionInv'
<1>1. /\ UNCHANGED <<server, opened, tls, signalled, expired, code, proxy>>
      /\ conv' = [conv EXCEPT ![c] = q] /\ conv \in [Clients -> ConvType]
      /\ faults \in [Clients -> SUBSET Faults]
  BY DEF Become, serverVars, TypeOK
<1>2. \A k \in Clients : faults[k] \subseteq faults'[k]
  BY <1>1
<1>3. ASSUME NEW k \in Clients PROVE ConvInv(conv[k], faults[k])'
  <2>1. CASE k = c
    <3>1. ConvInv(q, G)'
      BY <1>1, ConvInvKept
    <3>2. conv'[k] = q /\ faults'[k] = G
      BY <1>1, <2>1
    <3> QED BY <3>1, <3>2 DEF ConvInv, HasCause, WithinLimits
  <2>2. CASE k # c
    <3>1. conv'[k] = conv[k] /\ faults'[k] = faults[k]
      BY <1>1, <2>2
    <3>2. PICK x, F : x = conv[k] /\ F = faults[k]
      OBVIOUS
    <3>3. ConvInv(x, F)
      BY <3>2 DEF SessionInv
    <3>4. ConvInv(x, F)'
      BY <1>1, <3>3, ConvInvKept
    <3>5. conv'[k] = x /\ faults'[k] = F
      BY <3>1, <3>2
    <3> QED BY <3>4, <3>5 DEF ConvInv, HasCause, WithinLimits
  <2> QED BY <2>1, <2>2
<1>4. \A k \in Clients : conv'[k].outcome = "dropped" => conv[k].outcome = "dropped"
  BY <1>1
<1> QED BY <1>1, <1>2, <1>3, <1>4 DEF SessionInv, DrainsInFlight

(* A step of a conversation that only ends it, without blame. *)
LEMMA EndInv ==
    ASSUME TypeOK, SessionInv, NEW c \in Clients, NEW o \in Outcomes \ {"dropped"},
           Become(c, Ended(conv[c], o)), UNCHANGED faults,
           HasCause(Ended(conv[c], o), faults[c]), WithinLimits(Ended(conv[c], o), faults[c])
    PROVE  SessionInv'
<1>1. conv[c] \in ConvType /\ faults \in [Clients -> SUBSET Faults]
  BY DEF TypeOK
<1>2. ConvInv(Ended(conv[c], o), faults[c])
  BY <1>1, EndedInv DEF SessionInv
<1>3. Ended(conv[c], o).outcome = o
  BY <1>1 DEF Ended, ConvType
<1>4. faults' = [faults EXCEPT ![c] = faults[c]] /\ faults[c] \in SUBSET Faults
  BY <1>1
<1> QED BY <1>2, <1>3, <1>4, BecomeInv

(* The end of the process: what it cuts off has a cause. *)
LEMMA DieInv ==
    ASSUME TypeOK, SessionInv, NEW status \in {0, 1}, Die(status),
           server # "exited",
           faults' \in [Clients -> SUBSET Faults],
           \A c \in Clients : faults[c] \subseteq faults'[c],
           \/ status = 1 /\ \A c \in Clients : "listener" \in faults'[c]
           \/ signalled /\ (expired \/ drained)
    PROVE  SessionInv'
<1>1. /\ server' = "exited" /\ code' = status
      /\ UNCHANGED <<opened, tls, signalled, expired, proxy>>
  BY DEF Die
<1>2. ASSUME NEW c \in Clients
      PROVE  /\ ConvInv(conv[c], faults[c])'
             /\ conv'[c].outcome = "dropped" => expired \/ "listener" \in faults'[c]
             /\ status = 0 => (conv'[c].outcome = "dropped" => expired)
  <2>1. /\ conv[c] \in ConvType /\ ConvInv(conv[c], faults[c])
        /\ conv[c].outcome # "dropped"
    BY DEF TypeOK, SessionInv
  <2>2. CASE InFlight(c)
    <3>1. conv'[c] = Ended(conv[c], "dropped")
      BY <2>2 DEF Die
    <3>2. expired \/ "listener" \in faults'[c]
      BY <2>2 DEF drained
    <3>3. /\ conv'[c].pc = "done" /\ conv'[c].home = conv[c].home
          /\ conv'[c].target = conv[c].target /\ conv'[c].outcome = "dropped"
      BY <2>1, <3>1 DEF Ended, ConvType
    <3>4. ConvInv(conv[c], faults[c])'
      BY <1>1, <2>1, <3>2, <3>3 DEF ConvInv, HasCause, WithinLimits
    <3> QED BY <2>2, <3>2, <3>4 DEF drained
  <2>3. CASE ~InFlight(c)
    <3>1. conv'[c] = conv[c]
      BY <2>3 DEF Die
    <3> QED BY <1>1, <2>1, <3>1 DEF ConvInv, HasCause, WithinLimits, listenerScheme
  <2> QED BY <2>2, <2>3
<1>3. DrainsInFlight'
  BY <1>1, <1>2 DEF DrainsInFlight
<1> QED BY <1>1, <1>2, <1>3 DEF SessionInv

(* A URL that does not lead back to the listener has a cause. *)
LEMMA AnswerInv ==
    ASSUME TypeOK, SessionInv, NEW c \in Clients, NEW page \in Pages, Answer(c, page)
    PROVE  SessionInv'
<1> DEFINE q == conv[c]
           named == [q EXCEPT !.pages = @ + 1,
                              !.declared = contentLength(q, page),
                              !.body = bodyLength(q, page)]
           a == IF rewritten(q, page) THEN "proxy" ELSE q.target
           n == IF page.more
                THEN [named EXCEPT !.pc = "page", !.scheme = SchemeOf[q.target],
                                   !.authority = a]
                ELSE Ended(named, "finished")
           G == faults[c]
                  \union (IF metadataInPrefix(page) THEN {} ELSE {"metadata"})
<1>1. /\ q \in ConvType /\ q.pc = "upstream" /\ ConvInv(q, faults[c])
      /\ faults \in [Clients -> SUBSET Faults]
  BY DEF Answer, At, TypeOK, SessionInv
<1>2. named \in ConvType
  BY <1>1, LengthType, FramedType
<1>3. /\ named.home = q.home /\ named.target = q.target /\ named.outcome = q.outcome
      /\ named.host = q.host
  BY <1>1 DEF ConvType
<1>4. G \in SUBSET Faults /\ faults[c] \subseteq G
  BY <1>1 DEF Faults
<1>5. ~rewritten(q, page) => q.host = "" \/ "metadata" \in G
  <2>1. ~packed(q)
    BY DEF packed, director
  <2>3. CASE q.host = ""
    BY <2>3
  <2>4. CASE ~metadataInPrefix(page)
    BY <2>4
  <2>5. CASE q.host # "" /\ metadataInPrefix(page)
    BY <2>1, <2>5 DEF rewritten, inspected, inPrefix, metadataInPrefix
  <2> QED BY <2>3, <2>4, <2>5
<1>6. q.target = q.home
  BY DEF Answer
<1>7. ConvInv(q, G)
  BY <1>1, <1>4 DEF ConvInv, HasCause, WithinLimits
<1>8. ConvInv(n, G) /\ (n.outcome = q.outcome \/ n.outcome = "finished")
  <2> HIDE DEF named, G
  <2>1. CASE page.more
    <3>1. /\ n.pc = "page" /\ n.scheme = SchemeOf[q.target] /\ n.authority = a
          /\ n.home = q.home /\ n.target = q.target /\ n.outcome = q.outcome
          /\ n.host = q.host
      BY <1>2, <1>3, <2>1 DEF ConvType
    <3> QED BY <1>1, <1>5, <1>6, <1>7, <3>1 DEF ConvInv, HasCause, WithinLimits
  <2>2. CASE ~page.more
    <3>1. /\ n.pc = "done" /\ n.home = q.home /\ n.target = q.target
          /\ n.outcome = "finished"
      BY <1>2, <1>3, <2>2 DEF Ended, ConvType
    <3> QED BY <1>7, <3>1 DEF ConvInv, HasCause, WithinLimits
  <2> QED BY <2>1, <2>2
<1>9. Become(c, n) /\ faults' = [faults EXCEPT ![c] = G]
  <2>1. Become(c, n)
    BY DEF Answer
  <2>2. CASE metadataInPrefix(page)
    BY <1>1, <2>2 DEF Answer
  <2>3. CASE ~metadataInPrefix(page)
    BY <2>3 DEF Answer, Blame
  <2> QED BY <2>1, <2>2, <2>3
<1> HIDE DEF n, G
<1> QED BY <1>4, <1>8, <1>9, BecomeInv

(* SessionInv holds at the start and is kept by every step. *)
LEMMA SessionInit == Init => SessionInv
<1>1. Idle.pc = "idle" /\ Idle.home = "" /\ Idle.outcome = "none"
  BY DEF Idle
<1> QED BY <1>1 DEF Init, SessionInv, ConvInv, HasCause, WithinLimits, DrainsInFlight

LEMMA SessionStep == TypeOK /\ SessionInv /\ [Next]_vars => SessionInv'
<1> SUFFICES ASSUME TypeOK, SessionInv, [Next]_vars PROVE SessionInv'
  OBVIOUS
<1>1. ASSUME UNCHANGED <<tls, proxy, conv, faults>>, signalled => signalled',
             expired => expired', code' = code,
             server' # "exited" \/ server = "exited",
             server = "exited" => server' = "exited",
             server' = "draining" => signalled'
      PROVE  SessionInv'
  <2>1. ASSUME NEW c \in Clients PROVE ConvInv(conv[c], faults[c])'
    BY <1>1 DEF SessionInv, ConvInv, HasCause, WithinLimits, listenerScheme
  <2> QED BY <1>1, <2>1 DEF SessionInv, DrainsInFlight
<1>2. CASE Listen
  BY <1>1, <1>2 DEF Listen
<1>3. CASE ListenerFails
  <2>1. /\ faults' \in [Clients -> SUBSET Faults]
        /\ \A c \in Clients : faults[c] \subseteq faults'[c] /\ "listener" \in faults'[c]
    BY <1>3 DEF ListenerFails, TypeOK, Faults
  <2> QED BY <1>3, <2>1, DieInv DEF ListenerFails
<1>4. CASE Signal
  BY <1>1, <1>4 DEF Signal, SessionInv
<1>5. CASE Shutdown
  BY <1>1, <1>5 DEF Shutdown
<1>6. CASE GraceExpires
  BY <1>1, <1>6 DEF GraceExpires, SessionInv
<1>7. CASE Exit
  <2>1. /\ faults' \in [Clients -> SUBSET Faults]
        /\ \A c \in Clients : faults[c] \subseteq faults'[c]
    BY <1>7 DEF Exit, TypeOK
  <2>2. signalled /\ (expired \/ drained)
    BY <1>7 DEF Exit, SessionInv
  <2> QED BY <1>7, <2>1, <2>2, DieInv DEF Exit
<1>8. ASSUME NEW u \in Upstreams, SwapProxy(u) PROVE SessionInv'
  <2>1. UNCHANGED <<server, opened, tls, signalled, expired, code, conv>> /\ proxy' = u
    BY <1>8 DEF SwapProxy, serverVars
  <2>2. ASSUME NEW c \in Clients
        PROVE  faults[c] \subseteq faults'[c] /\ ConvInv(conv[c], faults[c])'
    <3>1. faults'[c] = IF conv[c].home \notin {"", u} THEN faults[c] \union {"swap"}
                       ELSE faults[c]
      BY <1>8 DEF SwapProxy
    <3>2. ConvInv(conv[c], faults[c]) /\ u # proxy
      BY <1>8 DEF SessionInv, SwapProxy
    <3> QED BY <2>1, <3>1, <3>2 DEF ConvInv, HasCause, WithinLimits, listenerScheme
  <2> QED BY <2>1, <2>2 DEF SessionInv, DrainsInFlight
<1>9. ASSUME NEW c \in Clients,
             \/ \E host \in ClientHosts, headers \in ClientHeaders :
                   Submit(c, host, headers)
             \/ Reject(c) \/ Forward(c) \/ Poll(c) \/ PollFails(c)
             \/ \E page \in Pages : Answer(c, page)
             \/ Refuse(c) \/ Breaks(c)
      PROVE  SessionInv'
  <2>1. /\ conv[c] \in ConvType /\ faults \in [Clients -> SUBSET Faults]
        /\ ConvInv(conv[c], faults[c])
    BY DEF TypeOK, SessionInv
  <2>2. faults[c] \in SUBSET Faults
        /\ (UNCHANGED faults => faults' = [faults EXCEPT ![c] = faults[c]])
    BY <2>1
  <2>3. \A o \in Outcomes : Ended(conv[c], o).outcome = o
    BY <2>1 DEF Ended, ConvType
  <2>4. ASSUME NEW host \in ClientHosts, NEW headers \in ClientHeaders,
               Submit(c, host, headers)
        PROVE  SessionInv'
    <3> DEFINE q == [Idle EXCEPT !.pc = "guard", !.host = host, !.headers = headers]
    <3>1. q.pc = "guard" /\ q.home = "" /\ q.outcome = "none"
      BY DEF Idle
    <3>2. ConvInv(q, faults[c])
      BY <3>1 DEF ConvInv, HasCause, WithinLimits
    <3>3. Become(c, q) /\ UNCHANGED faults
      BY <2>4 DEF Submit
    <3> HIDE DEF q
    <3> QED BY <2>2, <3>1, <3>2, <3>3, BecomeInv
  <2>5. CASE Reject(c)
    <3>1. /\ HasCause(Ended(conv[c], "rejected"), faults[c])
          /\ WithinLimits(Ended(conv[c], "rejected"), faults[c])
      BY <2>3 DEF HasCause, WithinLimits, Outcomes
    <3> QED BY <2>5, <3>1, EndInv DEF Reject, Outcomes
  <2>6. CASE Forward(c)
    <3> DEFINE q == [conv[c] EXCEPT !.pc = "upstream", !.target = proxy, !.home = proxy]
    <3>1. /\ q.pc = "upstream" /\ q.home = proxy /\ q.target = proxy
          /\ q.outcome = conv[c].outcome
      BY <2>1 DEF ConvType
    <3>2. proxy # "" /\ conv[c].outcome = "none"
      BY <2>1, <2>6, SessionAssumption DEF TypeOK, Forward, At, ConvInv
    <3>3. ConvInv(q, faults[c])
      BY <2>1, <3>1, <3>2 DEF ConvInv, HasCause, WithinLimits
    <3>4. Become(c, q) /\ UNCHANGED faults
      BY <2>6 DEF Forward
    <3> HIDE DEF q
    <3> QED BY <2>2, <3>1, <3>3, <3>4, BecomeInv
  <2>7. CASE Poll(c)
    <3> DEFINE q == [conv[c] EXCEPT !.pc = "upstream", !.target = proxy]
    <3>1. /\ q.pc = "upstream" /\ q.home = conv[c].home /\ q.target = proxy
          /\ q.outcome = conv[c].outcome
      BY <2>1 DEF ConvType
    <3>2. conv[c].home # "" /\ conv[c].outcome = "none"
      BY <2>1, <2>7 DEF Poll, At, ConvInv
    <3>3. ConvInv(q, faults[c])
      BY <2>1, <3>1, <3>2 DEF ConvInv, HasCause, WithinLimits
    <3>4. Become(c, q) /\ UNCHANGED faults
      BY <2>7 DEF Poll
    <3> HIDE DEF q
    <3> QED BY <2>2, <3>1, <3>3, <3>4, BecomeInv
  <2>8. CASE PollFails(c)
    <3>1. PICK o \in {"unreachable", "scheme", "refused"} :
             /\ Become(c, Ended(conv[c], o)) /\ UNCHANGED faults
             /\ o = "unreachable" => conv[c].authority # "proxy"
             /\ o = "scheme" => conv[c].scheme # listenerScheme
             /\ o = "refused" => server \in {"draining", "exited"}
      BY <2>8 DEF PollFails
    <3>2. /\ Ended(conv[c], o).outcome = o /\ Ended(conv[c], o).host = conv[c].host
          /\ Ended(conv[c], o).home = conv[c].home
      BY <2>1 DEF Ended, ConvType
    <3>3. HasCause(Ended(conv[c], o), faults[c]) /\ WithinLimits(Ended(conv[c], o), faults[c])
      BY <2>1, <2>8, <3>1, <3>2
         DEF HasCause, WithinLimits, ConvInv, SessionInv, PollFails, At
    <3> QED BY <3>1, <3>3, EndInv DEF Outcomes
  <2>9. ASSUME NEW page \in Pages, Answer(c, page) PROVE SessionInv'
    BY <2>9, AnswerInv
  <2>10. CASE Refuse(c)
    <3>1. accepted(conv[c])
      BY DEF accepted, director
    <3>2. /\ HasCause(Ended(conv[c], "unknown"), faults[c])
          /\ WithinLimits(Ended(conv[c], "unknown"), faults[c])
      BY <2>1, <2>3, <2>10, <3>1 DEF Refuse, At, ConvInv, HasCause, WithinLimits, Outcomes
    <3> QED BY <2>10, <3>2, EndInv DEF Refuse, Outcomes
  <2>11. CASE Breaks(c)
    <3> DEFINE q == Ended(conv[c], "gateway")
               G == faults[c] \union {"upstream"}
    <3>1. ConvInv(conv[c], G)
      BY <2>1 DEF ConvInv, HasCause, WithinLimits
    <3>2. HasCause(q, G) /\ WithinLimits(q, G)
      BY <2>3 DEF HasCause, WithinLimits, Outcomes
    <3>3. ConvInv(q, G)
      BY <2>1, <3>1, <3>2, EndedInv
    <3>4. Become(c, q) /\ faults' = [faults EXCEPT ![c] = G]
      BY <2>11 DEF Breaks, Blame
    <3>5. G \in SUBSET Faults /\ faults[c] \subseteq G
      BY <2>2 DEF Faults
    <3>6. q.outcome # "dropped"
      BY <2>3 DEF Outcomes
    <3> HIDE DEF q, G
    <3> QED BY <3>3, <3>4, <3>5, <3>6, BecomeInv
  <2> QED BY <1>9, <2>4, <2>5, <2>6, <2>7, <2>8, <2>9, <2>10, <2>11
<1>10. CASE UNCHANGED vars
  BY <1>1, <1>10 DEF vars, SessionInv
<1> QED BY <1>2, <1>3, <1>4, <1>5, <1>6, <1>7, <1>8, <1>9, <1>10 DEF Next

(* The inductive invariant holds in every behaviour of the server. *)
THEOREM SessionCorrect == Spec => []SessionInv
<1> QED BY SessionInit, SessionStep, TypeCorrect, PTL DEF Spec

-----------------------------------------------------------------------------
(* rewriteTrinoURIs declares the length of the body it leaves behind. *)
LEMMA LengthDeclared ==
    ASSUME NEW q, NEW page \in Pages
    PROVE  contentLength(q, page) \in {Unknown, bodyLength(q, page)}
<1>1. page.len \in Int /\ Window \in Int /\ growth(q, page) \in Int
  BY LengthType
<1>2. wholeInHead(page) => headLength(page) = page.len
  BY <1>1 DEF wholeInHead, headLength
<1>3. wholeInHead(page) => headLength(page) + growth(q, page)
        = (headLength(page) + growth(q, page)) + (page.len - headLength(page))
  BY <1>1, <1>2
<1> QED BY <1>3 DEF contentLength, bodyLength

(* Every response of the proxy declares the length of its body or none,    *)
(* for any page length, window and change in the length of its URLs.       *)
THEOREM FramingCorrect == Spec => []FramingExact
<1> DEFINE Framed(q) == q.declared \in {Unknown, q.body}
<1>1. Init => FramingExact
  <2>1. Idle.declared = 0 /\ Idle.body = 0
    BY DEF Idle
  <2> QED BY <2>1 DEF Init, FramingExact
<1>2. TypeOK /\ FramingExact /\ [Next]_vars => FramingExact'
  <2> SUFFICES ASSUME TypeOK, FramingExact, [Next]_vars PROVE FramingExact'
    OBVIOUS
  <2>1. ASSUME NEW c \in Clients, NEW o \in Outcomes PROVE Framed(Ended(conv[c], o))
    <3>1. conv[c] \in ConvType /\ Framed(conv[c])
      BY DEF TypeOK, FramingExact
    <3>2. /\ Ended(conv[c], o).declared = conv[c].declared
          /\ Ended(conv[c], o).body = conv[c].body
      BY <3>1 DEF Ended, ConvType
    <3> QED BY <3>1, <3>2
  <2>2. ASSUME NEW c \in Clients, NEW q, Framed(q), Become(c, q) PROVE FramingExact'
    BY <2>2 DEF Become, FramingExact, TypeOK
  <2>3. CASE UNCHANGED conv
    BY <2>3 DEF FramingExact
  <2>4. ASSUME NEW status, Die(status) PROVE FramingExact'
    BY <2>1, <2>4 DEF Die, FramingExact, Outcomes
  <2>5. CASE Listen \/ Signal \/ Shutdown \/ GraceExpires \/ UNCHANGED vars
    BY <2>3, <2>5 DEF Listen, Signal, Shutdown, GraceExpires, vars
  <2>6. CASE ListenerFails \/ Exit
    BY <2>4, <2>6 DEF ListenerFails, Exit
  <2>7. ASSUME NEW u \in Upstreams, SwapProxy(u) PROVE FramingExact'
    BY <2>3, <2>7 DEF SwapProxy
  <2>8. ASSUME NEW c \in Clients, NEW host \in ClientHosts, NEW headers \in ClientHeaders,
               Submit(c, host, headers)
        PROVE  FramingExact'
    <3>1. PICK q : q = [Idle EXCEPT !.pc = "guard", !.host = host, !.headers = headers]
      OBVIOUS
    <3>2. Framed(q)
      BY <3>1 DEF Idle
    <3>3. Become(c, q)
      BY <2>8, <3>1 DEF Submit
    <3> QED BY <2>2, <3>2, <3>3
  <2>9. ASSUME NEW c \in Clients, Forward(c) \/ Poll(c) PROVE FramingExact'
    <3>1. conv[c] \in ConvType /\ Framed(conv[c])
      BY DEF TypeOK, FramingExact
    <3>2. PICK q : /\ Become(c, q)
                   /\ \/ q = [conv[c] EXCEPT !.pc = "upstream", !.target = proxy,
                                             !.home = proxy]
                      \/ q = [conv[c] EXCEPT !.pc = "upstream", !.target = proxy]
      BY <2>9 DEF Forward, Poll
    <3>3. Framed(q)
      BY <3>1, <3>2 DEF ConvType
    <3> QED BY <2>2, <3>2, <3>3
  <2>10. ASSUME NEW c \in Clients, Reject(c) \/ PollFails(c) \/ Refuse(c) \/ Breaks(c)
         PROVE  FramingExact'
    <3>1. PICK o \in Outcomes : Become(c, Ended(conv[c], o))
      BY <2>10 DEF Reject, PollFails, Refuse, Breaks, Outcomes
    <3> QED BY <2>1, <2>2, <3>1
  <2>11. ASSUME NEW c \in Clients, NEW page \in Pages, Answer(c, page) PROVE FramingExact'
    <3> DEFINE q == conv[c]
               named == [q EXCEPT !.pages = @ + 1,
                                  !.declared = contentLength(q, page),
                                  !.body = bodyLength(q, page)]
    <3>1. named \in ConvType /\ Framed(named)
      <4>1. q \in ConvType
        BY DEF TypeOK
      <4>2. named \in ConvType
        BY <4>1, LengthType, FramedType
      <4>3. named.declared = contentLength(q, page) /\ named.body = bodyLength(q, page)
        BY <4>1 DEF ConvType
      <4> QED BY <4>2, <4>3, LengthDeclared
    <3>2. PICK n : n = IF page.more
                       THEN [named EXCEPT !.pc = "page", !.scheme = SchemeOf[q.target],
                                          !.authority = IF rewritten(q, page) THEN "proxy"
                                                        ELSE q.target]
                       ELSE Ended(named, "finished")
      OBVIOUS
    <3>3. Become(c, n)
      BY <2>11, <3>2 DEF Answer
    <3>4. n.declared = named.declared /\ n.body = named.body
      <4> HIDE DEF named
      <4> QED BY <3>1, <3>2 DEF ConvType, Ended
    <3> QED BY <2>2, <3>1, <3>3, <3>4
  <2> QED BY <2>5, <2>6, <2>7, <2>8, <2>9, <2>10, <2>11 DEF Next
<1> QED BY <1>1, <1>2, TypeCorrect, PTL DEF Spec

-----------------------------------------------------------------------------
(* Conversations break off only for causes outside the proxy, or at its    *)
(* two limits: a swap of the upstream in the middle, and a listener with   *)
(* another scheme than the upstream.                                       *)
THEOREM LossesHaveACause == Spec => []LostForCause
<1>1. SessionInv => LostForCause
  BY DEF SessionInv, ConvInv, LostForCause
<1> QED BY <1>1, SessionCorrect, PTL

(* A shutdown within the grace period drops no request. *)
THEOREM ShutdownDrains == Spec => []DrainsInFlight
<1>1. SessionInv => DrainsInFlight
  BY DEF SessionInv
<1> QED BY <1>1, SessionCorrect, PTL
==============================================================================
