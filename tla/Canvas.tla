------------------------------- MODULE Canvas --------------------------------
(***************************************************************************)
(* What drawing promises: a picture of width by height pixels, drawn on by *)
(* coordinates and clipped at its edges, and what of it the screen shows.  *)
(* A pixel is <<unused, red, green, blue>>.                                *)
(***************************************************************************)
EXTENDS Integers, Sequences

CONSTANTS Font,        \* the lit pixels of each character, as <<row, column>>
          GlyphWidth,
          Black, Grey, Title

VARIABLES picture,     \* from <<x, y>> to pixels
          shown

\* The pixels of a string.
Lit(x, y, s) ==
    UNION {{<<x + (k - 1) * GlyphWidth + d[2], y + d[1]>> : d \in Font[s[k]]} :
              k \in {h \in DOMAIN s : s[h] # "\n"}}

Text(p, x, y, s, color) ==
    [q \in DOMAIN p |-> IF q \in Lit(x, y, s) THEN color ELSE p[q]]

Rectangle(p, x, y, width, height, color) ==
    [q \in DOMAIN p |-> IF q[1] \in x .. x + width - 1 /\ q[2] \in y .. y + height - 1
                          THEN color ELSE p[q]]

\* An image is a function from <<row, column>> to <<red, green, blue, alpha>>.
Picture(p, image) ==
    [q \in DOMAIN p |-> LET at == <<q[2], q[1]>>
                        IN IF at \in DOMAIN image
                             THEN <<image[at][4], image[at][1], image[at][2], image[at][3]>>
                             ELSE p[q]]

Step(c) ==
    /\ c.op = "init" => picture' = [q \in DOMAIN picture |-> Black] /\ shown' = picture'
    /\ c.op = "text" => picture' = Text(picture, c.x, c.y, c.s, c.color) /\ UNCHANGED shown
    /\ c.op = "image" => picture' = Picture(picture, c.image) /\ UNCHANGED shown
    /\ c.op = "swap" => shown' = picture /\ UNCHANGED picture
    /\ c.op = "create" => UNCHANGED <<picture, shown>>
    /\ c.op = "draw" =>
          /\ picture' = Text(Rectangle(picture, c.x, c.y, c.width, c.height, Grey),
                             c.x, c.y, c.s, Title)
          /\ shown' = picture'
=============================================================================
