------------------------------ MODULE Graphics -------------------------------
(***************************************************************************)
(* Drawing, src/Graphics/graphics.c and src/Quantum/Window/Window.c: text, *)
(* images and windows are drawn into the back buffer, which swap_buffers   *)
(* copies to the screen.                                                   *)
(*                                                                         *)
(* Memory is the words from the back buffer on; malloc takes whole pages,  *)
(* rounded down, so the window's buffer follows the back buffer's pages    *)
(* and not always its end.  A word is <<a, r, g, b>>, high byte first.     *)
(***************************************************************************)
EXTENDS Integers, Sequences

CONSTANTS Screens,     \* [width, height, stride (pitch / 4), vram], in words
          PageWords,   \* words of a page, 1024
          Words,       \* size of the memory that is modelled
          Font, GlyphWidth, GlyphHeight,
          Strings, Images, Windows,
          Places,      \* where text is put
          MaxCalls     \* bound on the calls

Black == <<0, 0, 0, 0>>
Grey == <<128, 128, 128, 128>>
Title == <<0, 238, 238, 238>>
White == <<255, 255, 255, 255>>
Junk == <<-1, -1, -1, -1>>

\* A pixel of a glyph is in its box; a picture, and a window behind it, are in
\* the memory that is modelled.
ASSUME GraphicsAssumption ==
    /\ PageWords \in Nat \ {0} /\ MaxCalls \in Nat /\ Words \in Nat
    /\ GlyphWidth \in Nat /\ GlyphHeight \in Nat /\ Places \subseteq Nat \X Nat
    /\ \A c \in DOMAIN Font : Font[c] \subseteq (0 .. GlyphHeight - 1) \X (0 .. GlyphWidth - 1)
    /\ \A s \in Strings \cup {w.title : w \in Windows} : s \in Seq(DOMAIN Font \cup {"\n"})
    /\ \A i \in Images : DOMAIN i \subseteq Nat \X Nat
    /\ \A w \in Windows : /\ w # <<>> /\ w.x \in Nat /\ w.y \in Nat
                          /\ w.width \in Nat /\ w.height \in Nat
    /\ \A s \in Screens :
         /\ s.width \in Nat /\ s.height \in Nat /\ s.stride \in Nat /\ s.width <= s.stride
         /\ s.stride * s.stride <= Words /\ s.height * s.stride <= Words
         /\ \A w \in Windows : /\ w.width <= s.stride
                               /\ s.height * s.stride + w.width * w.height <= Words

VARIABLES screen,
          mem, front,  \* the words from the back buffer on, and the visible ones
          window,      \* the argument of init_window, <<>> before
          status,      \* "off", "on", or "fault": swap_buffers has left the frame buffer
          last, calls  \* the last call, and how many there were

vars == <<screen, mem, front, window, status, last, calls>>

stride == screen.stride
Size == screen.height * stride
\* malloc's whole pages: what it does for two pages or more and for a multiple of
\* one, which the kernel's buffers are; its NULL is not looked at by the callers
\* and is left out, as are objects of slabs.
Pages(n) == (n \div PageWords) * PageWords
WindowAt == Pages(Size)

Init ==
    /\ screen \in Screens
    /\ mem = [a \in 0 .. Words - 1 |-> Junk] /\ front = [a \in 0 .. Size - 1 |-> Junk]
    /\ window = <<>> /\ status = "off" /\ last = <<>> /\ calls = 0

Call(c) ==
    /\ status = (IF c.op = "init" THEN "off" ELSE "on")
    /\ calls < MaxCalls /\ calls' = calls + 1
    /\ last' = c /\ UNCHANGED screen

\* Every store of [address |-> word] pairs, in one step.
Store(m, stores) == [a \in DOMAIN m |-> IF a \in DOMAIN stores THEN stores[a] ELSE m[a]]

\* memset of flush_backbuffer: width * pitch bytes, which is not the size.
Flush(m) == Store(m, [a \in 0 .. screen.width * stride - 1 |-> Black])

\* memcpy32 of height * pitch words, four times the back buffer: beyond the
\* frame buffer's memory is a page fault, whose handler never returns.
swap_buffers(m) ==
    /\ front' = [a \in DOMAIN front |-> m[a]]
    /\ status' = IF 4 * Size <= screen.vram THEN "on" ELSE "fault"

\* The words that draw_char sets, both axes clipped by the stride.  Mutant:
\* a column is clipped a glyph too late.
PixelsUnclipped(x, y, c) ==
    {(y + d[1]) * stride + x + d[2] : d \in {e \in Font[c] : y + e[1] < stride /\ x + e[2] < stride + GlyphWidth}}
Pixels(x, y, c) ==
    {(y + d[1]) * stride + x + d[2] : d \in {e \in Font[c] : y + e[1] < stride /\ x + e[2] < stride}}

put_string(m, x, y, s, color) ==
    LET lit == UNION {Pixels(x + (k - 1) * GlyphWidth, y, s[k]) : k \in {h \in DOMAIN s : s[h] # "\n"}}
    IN Store(m, [a \in lit |-> color])

\* blit of a whole source: row i starts at (y + i) * dst_width + x, unclipped.
Target(x, y, width, height) ==
    {(y + d[1]) * stride + x + d[2] : d \in (0 .. height - 1) \X (0 .. width - 1)}
\* Mutant: the target's rows are taken for the visible width.
blitVisible(m, x, y, width, height, src) ==
    Store(m, [a \in {(y + d[1]) * screen.width + x + d[2] : d \in (0 .. height - 1) \X (0 .. width - 1)} |->
                 m[src + (((a - x) \div screen.width) - y) * width + ((a - x) % screen.width)]])
blit(m, x, y, width, height, src) ==
    Store(m, [a \in Target(x, y, width, height) |->
                 m[src + (((a - x) \div stride) - y) * width + ((a - x) % stride)]])

graphics_init ==
    /\ Call([op |-> "init"])
    /\ mem' = Flush([a \in DOMAIN mem |-> IF a < Pages(Size) THEN Black ELSE mem[a]])
    /\ swap_buffers(mem')
    /\ UNCHANGED window

PutString ==
    /\ \E at \in Places, s \in Strings :
         /\ Call([op |-> "text", x |-> at[1], y |-> at[2], s |-> s, color |-> White])
         /\ mem' = put_string(mem, at[1], at[2], s, White)
    /\ UNCHANGED <<front, window, status>>

\* draw_mint, draw_xboxlive and draw_banana: pixel j of row i goes to byte
\* 4 * j + pitch * i; the image's bytes are red, green, blue and alpha, so the
\* word has blue high, and the two are swapped.
Swapped(byte) == <<byte[4], byte[1], byte[2], byte[3]>>
DrawImage ==
    /\ \E image \in Images :
         /\ Call([op |-> "image", image |-> image])
         /\ mem' = Store(mem, [a \in {d[1] * stride + d[2] : d \in DOMAIN image} |->
                                  Swapped(image[<<a \div stride, a % stride>>])])
    /\ UNCHANGED <<front, window, status>>

Swap == Call([op |-> "swap"]) /\ swap_buffers(mem) /\ UNCHANGED <<mem, window>>

\* malloc of the buffer clears its pages.
init_window ==
    /\ window = <<>>
    /\ \E w \in Windows :
         /\ window' = w
         /\ Call([op |-> "create"])
         /\ mem' = Store(mem, [a \in WindowAt .. WindowAt + Pages(w.width * w.height) - 1 |-> Black])
    /\ UNCHANGED <<front, status>>

Filled(m) ==
    Store(m, [a \in WindowAt .. WindowAt + window.width * window.height - 1 |-> Grey])

draw_window ==
    /\ window # <<>>
    /\ Call([op |-> "draw", x |-> window.x, y |-> window.y, width |-> window.width,
             height |-> window.height, s |-> window.title])
    /\ mem' = put_string(blit(Filled(mem), window.x, window.y, window.width, window.height, WindowAt),
                         window.x, window.y, window.title, Title)
    /\ swap_buffers(mem')
    /\ UNCHANGED window

Next == graphics_init \/ PutString \/ DrawImage \/ Swap \/ init_window \/ draw_window

Spec == Init /\ [][Next]_vars

-----------------------------------------------------------------------------
Colors == {Black, Grey, Title, White, Junk} \cup UNION {{Swapped(i[d]) : d \in DOMAIN i} : i \in Images}

TypeOK ==
    /\ mem \in [0 .. Words - 1 -> Colors] /\ front \in [0 .. Size - 1 -> Colors]
    /\ window \in Windows \cup {<<>>} /\ status \in {"off", "on", "fault"} /\ calls \in 0 .. MaxCalls

\* The two buffers are whole pages, the screen is no higher than wide, and
\* neither a window nor an image reaches over the right edge of a line.
Exact ==
    /\ Pages(Size) = Size
    /\ screen.height <= screen.width
    /\ \A i \in Images : \A d \in DOMAIN i : d[2] < stride
    /\ window = <<>> \/ (/\ Pages(window.width * window.height) = window.width * window.height
                         /\ window.x + window.width <= stride)

\* Nothing is drawn below the screen.
Inside(c) ==
    /\ c.op # "init"
    /\ c.op = "text" => c.y + GlyphHeight <= screen.height
    /\ c.op = "image" => \A d \in DOMAIN c.image : d[1] < screen.height
    /\ c.op = "draw" => c.y + c.height <= screen.height /\ c.y + GlyphHeight <= screen.height

Coordinates == (0 .. screen.width - 1) \X (0 .. screen.height - 1)
Canvas == INSTANCE Canvas WITH
            picture <- [q \in Coordinates |-> mem[q[2] * stride + q[1]]],
            shown <- [q \in Coordinates |-> front[q[2] * stride + q[1]]]

\* Every call draws on the picture, by coordinates, what it says, and shows it
\* when it says so: padding at the end of lines, the clip, the lengths of rows
\* and the order of the colors never show (graphics.c:45).
ImplementsCanvas == [][Exact' => Canvas!Step(last')]_vars

\* Drawing changes no memory but the back buffer and, where it belongs to a
\* window, the window's, as long as all of it is on the screen: lines below it
\* are clipped by the width only (graphics.c:56).
OnlyOwnMemory ==
    [][Exact' /\ Inside(last') =>
          \A a \in DOMAIN mem : mem'[a] # mem[a] =>
              \/ a < Size
              \/ /\ last'.op \in {"create", "draw"}
                 /\ a - WindowAt \in 0 .. window'.width * window'.height - 1]_vars
=============================================================================
