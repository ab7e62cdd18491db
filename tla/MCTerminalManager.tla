------------------------- MODULE MCTerminalManager -------------------------
EXTENDS TerminalManager

StartStop == {"start", "stop"}

\* A probe that began before a restart cannot be told from one of the terminal
\* that has its id now, so the runs with a restart do without probes.
WithoutProbe == AllCalls \ {"ready"}

\* A wait changes nothing: only liveness is about it.
WithoutWait == AllCalls \ {"wait"}
=============================================================================
