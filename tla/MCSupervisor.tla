----------------------------- MODULE MCSupervisor -----------------------------
EXTENDS TargetSupervisor

Start(first, second, n, d, f, o, u) ==
    [page |-> <<first, second>>, navigations |-> n, drops |-> d, faults |-> f, operations |-> o,
     unreliable |-> u]

Most == Commands \ {"connect", "viewport"}

\* Two pages and one trouble of each kind; a page that changes three times;
\* two pages that change twice; an emulated viewport
\* that fails while nothing is lost, and one that is restored while its page closes; a browser that
\* takes no new connection.
Covering ==
    {Start("open", "none", 1, 1, 1, 1, Most), Start("gone", "none", 3, 1, 0, 1, {}),
     Start("open", "none", 2, 0, 0, 1, {}), Start("open", "gone", 1, 0, 1, 1, {"viewport"}),
     Start("open", "gone", 1, 1, 0, 1, {"viewport"}), Start("open", "gone", 0, 1, 1, 0, {"connect"})}

\* A viewport that cannot be rolled back, then a lost connection.
Restoring == {Start("open", "gone", 0, 1, 1, 1, Commands)}
===============================================================================
