---------------------------- MODULE MCHistorian ----------------------------
(***************************************************************************)
(* Small instances of Historian for TLC.  Two spellings of one topic       *)
(* ("Ta", "ta") exercise the rename path; "Tb" is a second topic.          *)
(***************************************************************************)
EXTENDS Historian

MCNames == {"Ta", "ta", "Tb"}
MCLower(n) == IF n = "Tb" THEN "tb" ELSE "ta"
MCHash(k) == "md5:" \o k

Pt(topic, source, ts, value, meta, coerces) ==
    [topic |-> topic, source |-> source, ts |-> ts, value |-> value,
     meta |-> meta, coerces |-> coerces]

\* A rename, two writes of one key with different values, the first
\* spelling coming back with new metadata, and a last point that cannot be
\* coerced.
SafetyStream ==
    << Pt("Ta", "scrape", 1, "v1", "m1", TRUE),
       Pt("ta", "scrape", 1, "v2", "m1", TRUE),
       Pt("Tb", "log", 1, "v1", "m1", TRUE),
       Pt("Ta", "analysis", 2, "v2", "m2", TRUE),
       Pt("Tb", "record", 2, "v2", "m2", FALSE) >>

\* The safety stream with a late duplicate of the third point's key,
\* carrying another value, ahead of the point that cannot be coerced.
LongStream ==
    SubSeq(SafetyStream, 1, 4) \o << Pt("Tb", "log", 1, "v2", "m2", TRUE),
                                     SafetyStream[5] >>

\* The same stream without the point that cannot be coerced.
GoodStream == SubSeq(SafetyStream, 1, 4)

\* A point that cannot be coerced between two good ones.
PoisonStream ==
    << Pt("Ta", "scrape", 1, "v1", "m1", TRUE),
       Pt("Tb", "scrape", 1, "v2", "m1", FALSE),
       Pt("Tb", "log", 1, "v1", "m1", TRUE) >>
=============================================================================
