----------------------------- MODULE MCSources -----------------------------
(* The sources, side by side: a behaviour is of one polled server or of    *)
(* the table, and the other stands still.                                  *)
EXTENDS MCSource, MCSourceTable

VARIABLE side

mcVars == <<side, sourceVars, vars>>

OnSource(Action) == side = "source" /\ Action /\ UNCHANGED <<side, vars>>
OnTable(Action) == side = "table" /\ Action /\ UNCHANGED <<side, sourceVars>>

NoTable == Init /\ config = Says(FALSE, TRUE, TRUE, << >>)
NoSource == SourceInit /\ security = "plain"

MCInit ==
    \/ side = "source" /\ SourceInit /\ NoTable
    \/ side = "table" /\ Init /\ NoSource

MCNext == OnSource(SourceNext) \/ OnTable(Next)

(* SourceFairness and Fairness, each on its side.                          *)
MCFairness ==
    /\ WF_mcVars(OnSource(Tick))
    /\ SF_mcVars(OnSource(SendPoll \/ NoSocket \/ SendFails))
    /\ WF_mcVars(OnSource(ExpirePending))
    /\ WF_mcVars(OnSource(Resolved))
    /\ WF_mcVars(OnSource(\E given \in 1..CookieTarget : Handshook(given)))
    /\ \A i \in 1..MaxEntries :
          /\ WF_mcVars(OnTable(i \in DOMAIN entries /\ SubmitResolve(i)))
          /\ WF_mcVars(OnTable(i \in DOMAIN entries /\ SubmitHandshake(i)))
    /\ WF_mcVars(OnTable(EnsureRoots))
    /\ WF_mcVars(OnTable(\E ok \in BOOLEAN : Work(ok)))
    /\ WF_mcVars(OnTable(CollectRoots \/ CollectResolved \/ CollectHandshook))

MCSpec == MCInit /\ [][MCNext]_mcVars /\ MCFairness

(* KeepsPolling where a server is polled at all: there is always another   *)
(* request (Source::due and record_loss in source.rs, poll_due in main.rs). *)
KeepsOnPolling == \A n \in Nonces : []<>(side = "table" \/ nonce = n)

(* The types of both parts, with what they say of counters at their ends   *)
(* and of keys and security.                                               *)
SourcesTypeOK == SourceTypeOK /\ TypeOK
=============================================================================
