------------------------------ MODULE Heatmap ------------------------------
(***************************************************************************)
(* heatmap.c: draw_subcolumn draws a column of samples into an image of    *)
(* height rows.  With more rows than samples each sample gets its rows     *)
(* (project_samples), else each row its samples (project_pixels); one      *)
(* action is one turn of either loop.                                      *)
(*                                                                         *)
(* Several numeric samples of a row are mixed by domain region, ordinal    *)
(* ones are drawn from.                                                    *)
(***************************************************************************)
EXTENDS ColorScale, FiniteSets, Functions

CONSTANTS
  Pictures,     (* What draw_subcolumn is called with: the type, the domain *)
                (* of the scale, d, order, first, count and height.         *)
  Width, Elstart, Elsize,   (* The image, and the part of it to draw in.    *)
  NoValue,      (* NaN.                                                     *)
  Grey          (* 0xFF808080: nothing is drawn; the image is grey.         *)

(* A colour that is mixed of parts of the scale is what each part has.     *)
Part == [count : Nat, sum : Int, color : [low : Nat, high : Nat]]

(* Scales ascend and have two to four stops, on a logarithmic scale two.   *)
IsScale(type, domain) ==
  /\ type \in {"LINEAR", "LOG"} /\ domain \in Seq(Int)
  /\ Len(domain) \in 2..4 /\ (type = "LOG" => Len(domain) = 2)
  /\ \A j, k \in DOMAIN domain : j < k => domain[j] < domain[k]

(* Products of counts and heights are ints: the calls modelled keep to     *)
(* those that fit.  Beyond, the code is undefined.                         *)
ASSUME HeatmapAssumption ==
  /\ {Width, Elstart, Elsize, MaxInt} \subseteq Nat /\ Elstart + Elsize <= Width
  /\ Colors \in Nat \ {0}
  /\ \A regions \in SUBSET (0..4) : Grey \notin [regions -> Part]
  /\ \A p \in Pictures :
       /\ p.type = "ORDINAL" \/ IsScale(p.type, p.domain)
       /\ {p.first, p.count, p.height} \subseteq Nat
       /\ \A k \in p.first..p.first + p.count - 1 :
            p.d[p.order[k]] \in {NoValue} \cup
              IF p.type = "ORDINAL" THEN -MaxInt - 1..MaxInt ELSE Int
       /\ p.count * p.height + p.height - 1 <= MaxInt

VARIABLES
  pic,    (* The arguments.                                                 *)
  turn,   (* i in project_samples, ry in project_pixels.                    *)
  img,
  ended   (* History: the rows for which rand() was RAND_MAX.               *)

heatmapVars == <<pic, turn, img, ended>>

-----------------------------------------------------------------------------
(* Times wraps, as the product of two ints does in the WebAssembly build.  *)
Times(x, y) == ((x * y + MaxInt + 1) % (2 * (MaxInt + 1))) - MaxInt - 1

div_ceil_M1(x, y) == x \div y

div_ceil(x, y) == (x + y - 1) \div y

(* The sample at place k of the order, and those from start to end - 1     *)
(* that are not NaN.                                                       *)
Value(k) == pic.d[pic.order[k]]

Values(start, end) == {k \in start..end - 1 : Value(k) # NoValue}

(* The sum of samples.                                                     *)
SumOf(samples) == SumFunction([k \in samples |-> Value(k)])

(* The region of the domain a value is counted in: k stops make k + 1.     *)
Region(v) ==
  LET h == Len(pic.domain)
      case(stops) == h >= stops /\ v > pic.domain[stops - 1]
  IN IF v >= pic.domain[h] THEN h
     ELSE IF v <= pic.domain[1] THEN 0
     ELSE IF case(4) THEN 3
     ELSE IF case(3) THEN 2
     ELSE 1

tally_domains(samples) ==
  [r \in 0..Len(pic.domain) |->
    LET in == {k \in samples : Region(Value(k)) = r}
    IN [count |-> Cardinality(in), sum |-> SumOf(in)]]

get_method(sum, c) ==
  IF pic.type = "LOG" THEN get_color_log2(pic.domain, sum, c)
  ELSE get_color_linear(pic.domain, sum, c)

(* The mix: of each region that has data, their mean's colour, weighed by  *)
(* how many they are.                                                      *)
region_color_default(samples) ==
  LET tally == tally_domains(samples)
      some == {r \in DOMAIN tally : tally[r].count > 0}
  IN IF some = {} THEN Grey
     ELSE [r \in some |->
            [ count |-> tally[r].count, sum |-> tally[r].sum,
              color |-> get_method(tally[r].sum, tally[r].count) ]]

(* The colours rand() may choose, filtered[randmax(count)]: that of any    *)
(* value collected or, when it is RAND_MAX, of what is behind the last,    *)
(* which may have any colour.                                              *)
region_color_ordinal(samples) ==
  IF samples = {} THEN {[color |-> Grey, end |-> FALSE]}
  ELSE {[color |-> get_color_ordinal(Value(k)), end |-> FALSE] : k \in samples}
         \cup [color : 0..Colors - 1, end : {TRUE}]

fill_region(ry, rheight, c32) ==
  [p \in DOMAIN img |->
    IF \E y \in ry..ry + rheight - 1 :
         LET buffStart == y * Width + Elstart
         IN p \in buffStart..buffStart + Elsize - 1
    THEN c32 ELSE img[p]]

(* Colour rows ry to ry + rheight - 1 by samples start to end - 1.         *)
Fill(start, end, ry, rheight) ==
  \E c \in IF pic.type = "ORDINAL" THEN region_color_ordinal(Values(start, end))
           ELSE {[color |-> region_color_default(Values(start, end)), end |-> FALSE]} :
    /\ img' = IF c.color = Grey THEN img ELSE fill_region(ry, rheight, c.color)
    /\ ended' = IF c.end THEN ended \cup (ry..ry + rheight - 1) ELSE ended

project_samples ==
  /\ pic.height > pic.count /\ turn < pic.count
  /\ LET ry == Times(turn, pic.height) \div pic.count
         rheight == Times(turn + 1, pic.height) \div pic.count - ry
     IN Fill(pic.first + turn, pic.first + turn + 1, ry, rheight)
  /\ turn' = turn + 1
  /\ UNCHANGED pic

project_pixels ==
  /\ pic.height <= pic.count /\ turn < pic.height
  /\ LET rstart == div_ceil(Times(turn, pic.count), pic.height)
         rend == div_ceil(Times(turn + 1, pic.count), pic.height) - 1
     IN Fill(pic.first + rstart, pic.first + rend + 1, turn, 1)
  /\ turn' = turn + 1
  /\ UNCHANGED pic

HeatmapInit ==
  /\ pic \in Pictures
  /\ turn = 0 /\ ended = {}
  /\ img = [p \in 0..Width * pic.height - 1 |-> Grey]

HeatmapNext == project_samples \/ project_pixels

HeatmapSpec == HeatmapInit /\ [][HeatmapNext]_heatmapVars

-----------------------------------------------------------------------------
Drawn == turn = IF pic.height > pic.count THEN pic.count ELSE pic.height

(* The samples row y is to show: the one its lower edge falls in, or those *)
(* whose upper edge falls in it.                                           *)
Shown(y) ==
  LET H == pic.height  C == pic.count
  IN {k \in 0..C - 1 :
       IF H > C THEN k * H < (y + 1) * C /\ (y + 1) * C <= (k + 1) * H
       ELSE y * C <= k * H /\ k * H < (y + 1) * C}

WithValue(y) == {k \in pic.first..pic.first + pic.count - 1 :
                   k - pic.first \in Shown(y) /\ Value(k) # NoValue}

(* Every pixel of the element is coloured by the samples of its row, all   *)
(* of those that have a value and no other, and every sample has a row:    *)
(* whether count divides height or not, and one divides the other's rows   *)
(* by rounding down, the other by rounding up.  No other pixel is touched. *)
(* An ordinal row has the colour of one of its samples, unless rand() was  *)
(* RAND_MAX for that row.                                                  *)
ShowsSamples ==
  Drawn =>
    /\ pic.height > 0 => UNION {Shown(y) : y \in 0..pic.height - 1} = 0..pic.count - 1
    /\ \A y \in 0..pic.height - 1, x \in 0..Width - 1 :
         LET c == img[y * Width + x]
             inside == x >= Elstart /\ x < Elstart + Elsize
         IN CASE ~ inside \/ WithValue(y) = {} -> c = Grey
              [] inside /\ WithValue(y) # {} /\ pic.type = "ORDINAL" ->
                   y \in ended \/ \E k \in WithValue(y) : c = get_color_ordinal(Value(k))
              [] OTHER ->
                   /\ c # Grey
                   /\ SumFunction([r \in DOMAIN c |-> c[r].count]) = Cardinality(WithValue(y))
                   /\ SumFunction([r \in DOMAIN c |-> c[r].sum]) = SumOf(WithValue(y))

(* Each region of a mix has the colour of its own part of the domain: the  *)
(* mean of the values counted there is between the two stops it is         *)
(* coloured by, or beyond the outer one, although heatmap.c and            *)
(* color_scales.c look for the part each in their own way.                 *)
ColoursByRegion ==
  \A p \in DOMAIN img : img[p] # Grey /\ pic.type # "ORDINAL" =>
    \A r \in DOMAIN img[p] :
      LET c == img[p][r].color  n == img[p][r].count  sum == img[p][r].sum
          h == Len(pic.domain)
      IN /\ IF c.low < c.high
            THEN pic.domain[c.low] * n <= sum /\ sum <= pic.domain[c.high] * n
            ELSE IF c.low = 1 THEN sum <= pic.domain[1] * n
            ELSE c.high = h /\ sum >= pic.domain[h] * n
         /\ r = 0 => c.low = 1
         /\ r = h => c.high = h
         /\ r \in 1..h - 1 => c = Within(r)
=============================================================================
