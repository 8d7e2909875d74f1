----------------------------- MODULE MCDatabase -----------------------------
(* Requests for TLC to send: every kind of statement on both paths into the *)
(* log, with what makes it interesting before and after it.                 *)
EXTENDS Database, TLC

Nodes == Permutations(Node)

Req(path, tx, timeout, stmts) ==
    [path |-> path, tx |-> tx, timeout |-> timeout, stmts |-> stmts]

\* Transactions, and one request without, on both paths.
Common == {Req(p, TRUE, FALSE, s) :
              p \in {"execute", "request"},
              s \in {<<"insert", "fails", "insert">>, <<"insert", "syntax", "now">>,
                     <<"insert", "commit", "fails">>}}
          \cup {Req(p, FALSE, FALSE, <<"badParam", "insert", "failsReturning", "empty">>) :
              p \in {"execute", "request"}}

\* Transactions of the client's own making, that span requests.
Spanning == {Req("execute", FALSE, FALSE, s) :
                s \in {<<"begin", "insert">>, <<"insert">>, <<"commit">>, <<"rollback">>}}

Special == {Req("execute", TRUE, FALSE, <<"random", "returning">>),
            Req("execute", TRUE, TRUE, <<"insert", "fails">>),
            Req("request", TRUE, TRUE, <<"insert", "select">>),
            Req("query", FALSE, FALSE, <<"select", "begin">>),
            Req("request", FALSE, FALSE, <<"insert", "begin">>),
            Req("load", FALSE, FALSE, <<>>)}

\* Left out are the requests on which replicas do not agree, or which they do not
\* notice as a change.
MCRequests == Common \cup Spanning \cup Special

ASSUME MCPlainRequests == PlainRequests
=============================================================================
