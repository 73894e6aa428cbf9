----------------------------- MODULE MCHeatmap -----------------------------
EXTENDS Heatmap

CONSTANTS MaxFew, MaxSamples, MaxHeight

Scales ==
  {<<"LINEAR", <<1, 5>>>>, <<"LINEAR", <<1, 3, 5>>>>, <<"LINEAR", <<1, 2, 4, 5>>>>, <<"LOG", <<1, 5>>>>}

(* The samples are taken backwards, leaving out the first that order has.  *)
Picture(scale, values, height) ==
  LET n == Len(values) IN
  [type |-> scale[1], domain |-> scale[2], d |-> [k \in 0..n |-> Append(values, 5)[k + 1]],
   order |-> [k \in 0..n |-> n - k], first |-> 1, count |-> n, height |-> height]

Samples(values, max) == UNION {[1..n -> values] : n \in 0..max}

(* Few samples with many values, on each kind of scale, and many with few. *)
MCPictures ==
  {Picture(s, v, h) : s \in Scales, v \in Samples(0..6 \cup {NoValue}, MaxFew), h \in 1..2}
    \cup {Picture(<<"LINEAR", <<1, 3>>>>, v, h) :
            v \in Samples({2, 3, NoValue}, MaxSamples), h \in 0..MaxHeight}
    \cup {Picture(<<"ORDINAL", <<>>>>, v, h) :
            v \in Samples({0, 1, 4, NoValue}, MaxFew), h \in 0..MaxHeight}
=============================================================================
