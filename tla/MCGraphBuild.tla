----------------------------- MODULE MCGraphBuild -----------------------------
EXTENDS GraphBuild

Of(def, handles, emits, uses, calls, late) ==
  [here |-> TRUE, def |-> def, handles |-> handles, emits |-> emits,
   uses |-> uses, calls |-> calls, late |-> late]

MCFiles == {"f1", "f2"}

MCContents ==
  {Absent,
   Of(TRUE, TRUE, FALSE, None, "f1", None),
   Of(TRUE, FALSE, TRUE, "route", "f2", None),
   Of(TRUE, TRUE, TRUE, "decorator", None, None),
   Of(FALSE, FALSE, TRUE, None, None, None),
   Of(FALSE, FALSE, FALSE, None, None, "infra"),
   Of(FALSE, FALSE, FALSE, None, None, "k8s")}
=============================================================================
