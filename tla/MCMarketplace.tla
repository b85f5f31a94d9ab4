--------------------------- MODULE MCMarketplace ---------------------------
(* Marketplace on small sets of users, rows and workers.                     *)
EXTENDS Marketplace

\* Requests that screening accepts, holds and rejects.
Papers == [name |-> "papers", weight |-> 1, value |-> 50, suspicious |-> FALSE, usPhone |-> FALSE]
Watch == [Papers EXCEPT !.name = "watch", !.value = 3500, !.suspicious = TRUE]
Gold == [Watch EXCEPT !.name = "gold", !.usPhone = TRUE]

MCPapers == {Papers}
MCRisky == {Watch, Gold}

=============================================================================
