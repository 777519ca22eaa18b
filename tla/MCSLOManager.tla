---------------------------- MODULE MCSLOManager ----------------------------
EXTENDS SLOManager

\* One short-term and one long-term window of DefaultConfig.
MCWindows == <<"5m", "1h">>
=============================================================================
