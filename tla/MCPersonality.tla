--------------------------- MODULE MCPersonality ---------------------------
(***************************************************************************)
(* Five functions, each in every encoding that can hold its offsets, on    *)
(* stacks of up to three frames.  Offsets and lengths take one to four     *)
(* bytes of uleb128 and up to three bytes of the formats of fixed size.    *)
(***************************************************************************)
EXTENDS Personality, TLC

Site(start, length, pad, action) ==
  [start |-> start, length |-> length, pad |-> pad, action |-> action]
Fun(table, resume) == [table |-> table, resume |-> resume]
\* two nested cleanups: the code of the inner one, at 300, is inside the outer one
Nested ==
  Fun(<<Site(0, 10, 0, 0), Site(10, 140, 300, 0), Site(150, 5, 320, 130), Site(300, 20, 320, 0)>>,
      (300 :> 310) @@ (320 :> 330))
\* adjacent call sites, an empty one and one that another shadows
Adjacent ==
  Fun(<<Site(4, 4, 40, 0), Site(8, 0, 50, 0), Site(8, 4, 60, 200), Site(6, 20, 70, 0)>>,
      (40 :> 45) @@ (50 :> 55) @@ (60 :> 65) @@ (70 :> 75))
\* a long function: three and four bytes of uleb128, the high bit of two bytes set
Far ==
  Fun(<<Site(0, 40000, 0, 0), Site(40000, 60000, 3000000, 20000), Site(3000000, 70000, 8000000, 0)>>,
      (3000000 :> 3069999) @@ (8000000 :> 8000005))
\* a function whose offsets fill two unsigned bytes
Wide == Fun(<<Site(32760, 8, 0, 0), Site(32768, 200, 65535, 3)>>, (65535 :> 65540))
Plain == Fun(<<>>, <<>>)
LpStarts == {<<255>>, <<27, 1, 2, 3, 4>>, <<155, 0, 0, 0, 128>>, <<1, 200, 1>>}
Ttypes == {<<255>>, <<155, 12>>, <<0, 172, 2>>}
\* the bytes of the entries in front of entry i
Entries(g) ==
  LET bytes[i \in 1 .. Len(g.table) + 1] == IF i = 1 THEN <<>> ELSE bytes[i - 1] \o Entry(g, i - 1)
  IN  bytes
Coded(f, lp, tt, enc) ==
  LET g == [table |-> f.table, resume |-> f.resume, lpStart |-> lp, ttype |-> tt, enc |-> enc,
            start |-> 4096]
      n == Len(f.table)
      table == Entries(g)[n + 1]
      header == lp \o tt \o <<enc>> \o ULEB(Len(table))
  IN  [lsda |-> IF n = 0 THEN <<>> ELSE header \o table,
       begin |-> [i \in 1 .. n + 1 |-> Len(header) + 1 + Len(Entries(g)[i])]] @@ g
CanHold(f, enc) ==
  \A i \in 1 .. Len(f.table) :
    Fits(enc, f.table[i].start) /\ Fits(enc, f.table[i].length) /\ Fits(enc, f.table[i].pad)
MCFunctions ==
  UNION {{Coded(f, lp, tt, enc) : lp \in LpStarts, tt \in Ttypes,
                                  enc \in {e \in {0, 1, 2, 3, 4, 10, 11, 12} : CanHold(f, e)}} :
         f \in {Nested, Adjacent, Far, Wide, Plain}}
Offs(f) ==
  {0} \cup UNION {{f.table[i].start, f.table[i].start + f.table[i].length - 1,
                   f.table[i].start + f.table[i].length} : i \in 1 .. Len(f.table)}
Frames(fs) == UNION {{[fn |-> f, off |-> off] : off \in Offs(f)} : f \in fs}
Few == {f \in MCFunctions : f.lpStart = <<255>> /\ f.ttype = <<0, 172, 2>> /\ f.enc \in {1, 3}
                          /\ f.table # Wide.table}
MCStacks ==
  {<<a>> : a \in Frames(MCFunctions)}
    \cup {<<a, b>> : a, b \in Frames(Few)}
    \cup {<<a, b, c>> : a, c \in {g \in Frames(Few) : g.off \in {4, 10}},
                        b \in {g \in Frames(Few) : g.fn.enc = 1}}
=============================================================================
