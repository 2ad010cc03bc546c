------------------------------ MODULE MCResolver ------------------------------
(* The IPv6 portal beside dns256, whose resolver asks a client on one node.    *)
EXTENDS Portal

CONSTANTS
  Call, Name, Kind, Elem, Server, Roots, Redirects, Records, Custom, MaxHops, DefaultHops, Bad

VARIABLES
  call, store, resp, readers, dnsCancelled, nextID, net, handling, serve, closed

dnsVars == <<call, store, resp, readers, dnsCancelled, nextID, net, handling, serve, closed>>

D == INSTANCE DNS256 WITH cancelled <- dnsCancelled

\* Names parse to paths, and redirects lead to servers.
ASSUME ResolverAssumption == D!WellFormed

\* dns256: only authorities that a chain of redirects delegates the path to are
\* asked, and results are their records.
ChainOfTrust == D!ChainOfTrust

===============================================================================
