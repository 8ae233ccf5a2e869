--------------------------- MODULE MCRegisterAccess ---------------------------
EXTENDS RegisterAccess, Profiles, FiniteSetsExt

\* The profiles of the repository, the restricted components among them.
Shipped ==
  {AC200L, AC240, AC500, Balco260, Balco500, Balcotrans, EP2000, EP500P, FP,
   PA030, SMeter, Balco260Pack, Balco260Aggregate, FPPack, FPBeforeRanges}

\* Any three fields of up to four registers in this window, with short blocks:
\* gaps on both sides of MaxGap, fields side by side, nested and overlapping.
Window == {Span(a, n) : a \in {0, 1, 2, 6, 7, 8, 12}, n \in {1, 2, 4}}
Small  == {Planned(fields, 7) : fields \in UNION {kSubset(k, Window) : k \in 1 .. 3}}

MCProfiles == Shipped \cup Small
=============================================================================
