----------------------------- MODULE MCRecvPool -----------------------------
(* Fault sets for model checking RecvPool.                                  *)
EXTENDS RecvPool

\* Two faults, except an online rollback together with a bad transaction or with a
\* receiver server that is killed.
FaultPairs ==
    {fs \in {{f, g} : f \in Faults, g \in Faults} :
        ~("rollback" \in fs /\ fs \intersect {"bad_trans", "rcvr_killed"} # {})}

\* An online rollback and a receiver server that is killed.
RollbackAndKill == {{"rollback", "rcvr_killed"}}

============================================================================
