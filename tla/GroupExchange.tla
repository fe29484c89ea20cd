---------------------------- MODULE GroupExchange ----------------------------
(***************************************************************************)
(* Group with the fairness of its anti-entropy: whenever two replicas      *)
(* become neighbours (control_loop, NeighborUp) each broadcasts its whole  *)
(* log, and neighbours keep meeting.  `heard` records the last exchange,   *)
(* so that the assumption can speak of exchanges that had nothing new.     *)
(***************************************************************************)
EXTENDS Group

VARIABLE heard

exchangeVars == <<vars, heard>>

Pairs == {p \in Member \X Member : p[1] # p[2]}

ExchangeInit == Init /\ heard = <<>>

\* send_log at e, heard by d.
Exchange(d, e) == LogArrived(d, e) /\ heard' = <<d, e>>

ExchangeNext ==
    \/ \E p \in Pairs : Exchange(p[1], p[2])
    \/ Next /\ UNCHANGED heard

\* Every replica hears every other again and again.  Nothing is assumed of
\* the broadcasts of single operations and certificates.
FairSpec ==
    /\ ExchangeInit
    /\ [][ExchangeNext]_exchangeVars
    /\ \A p \in Pairs : []<><<heard' = p>>_heard

-----------------------------------------------------------------------------
\* Whatever is lost, delayed or evicted, the exchange of logs alone brings all
\* replicas to the same operations and the same certificates for good.
Converges ==
    <>[](\A d, e \in live : log[d] = log[e] /\ certs[d] = certs[e])

\* A decision with a quorum is carried out everywhere (on_certs_arrived runs
\* the quorum actions even when no certificate was new): once enough
\* administrators have approved a removal, every replica eventually has the
\* member out of its tree.
QuorumPerformed ==
    \A x \in Subjects :
        (LET K == Closure(AllCerts)
         IN  IsExecutedAction(AllCerts, K.executed, RemoveAction(x)))
        ~> (\A d \in live : x \notin Tree(log[d]))
=============================================================================
