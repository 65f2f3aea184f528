---------------------------- MODULE MCQueryPaging -----------------------------
EXTENDS QueryPaging

MCRequests ==
  {Request("query", TRUE, "snapshot", FALSE, FALSE, "recent", resume) : resume \in BOOLEAN}
  \cup {Request("query", TRUE, "tail", FALSE, FALSE, "any", TRUE),
        Request("query", TRUE, "tail", TRUE, FALSE, "any", FALSE),
        Request("query", FALSE, "snapshot", FALSE, FALSE, "any", FALSE),
        Request("query", TRUE, "snapshot", FALSE, TRUE, "any", FALSE),
        Request("get", TRUE, "snapshot", FALSE, FALSE, "any", TRUE),
        Request("context", TRUE, "snapshot", FALSE, FALSE, "any", TRUE)}
===============================================================================
