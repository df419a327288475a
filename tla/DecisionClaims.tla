---------------------------- MODULE DecisionClaims ----------------------------
(***************************************************************************)
(* What the comments of the decision-elevation code say of it, stated over *)
(* the model of what it does.                                              *)
(***************************************************************************)
EXTENDS DecisionElevation

(* A decision that Handler<Decision> drops is a "replayed / foreign         *)
(* decision": never the one answer the journal will let through for a case  *)
(* that is still waiting for it.                                            *)
DroppedIsReplayedOrForeign ==
    [][\A m \in mailbox :
          (m \notin mailbox' /\ crashes' = crashes /\ m.case \notin pending)
              => db[m.case].status # "pending"]_vars

(* The status published says "the decision reached the corpus": what some   *)
(* maintainer merged is a draft of that case.                               *)
PublishedReachedCorpus ==
    \A c \in Case : db[c].status = "published" =>
        \E n \in DOMAIN prs : /\ prs[n].state = "merged"
                              /\ commits[prs[n].tip].case = c

=============================================================================
