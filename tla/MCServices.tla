----------------------------- MODULE MCServices -----------------------------
(* TLC instance of the session store and of the credential proxy.  They    *)
(* share no state; `focus` says which of them a behaviour is about.  The   *)
(* store has three processes, two on one slug and one on another: the lock *)
(* they contend for is one for all slugs.  Nothing of the other component  *)
(* is enabled under its fairness as long as it is where it started.        *)
EXTENDS SessionStore, CredentialProxy

CONSTANTS w1, w2, w3, s1, s2
VARIABLE focus

Anything == ({w1, w2} \X {"publish", "remove"} \X {s1})
            \cup ({w3} \X {"publish", "remove"} \X {s2})

ServicesInit ==
  /\ Init /\ ProxyInit /\ focus \in {"store", "proxy"}
  /\ focus = "store" => ~bridged

ServicesNext ==
  /\ UNCHANGED focus
  /\ \/ focus = "store" /\ Next /\ UNCHANGED proxyVars
     \/ focus = "proxy" /\ ProxyNext /\ UNCHANGED vars

ServicesSpec ==
  /\ ServicesInit /\ [][ServicesNext]_<<focus, vars, proxyVars>>
  /\ Fairness /\ ProxyFairness
=============================================================================
