SPECIFICATION Spec
CONSTANTS
 s1 = s1
 s2 = s2
 f1 = f1
 Sessions = {s1, s2}
 Windows = {w1, w2}
 Groups = {g1, g2}
 Files = {f1, f2}
 Codex = {s1}
 Acts = {a1, a2}
 Scenarios <- Cases
 None = None
 Deleted = Deleted
INVARIANTS SavedTabsStay AlwaysWatched
PROPERTIES LaunchedOnce RecoveredOnce StaysOff
CHECK_DEADLOCK FALSE
