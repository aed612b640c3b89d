----------------------------- MODULE MCGraphics ------------------------------
\* TLC instance of Graphics: glyphs of 2 by 1 pixels, pages of two words.
EXTENDS Graphics
Screen == [width |-> 4, height |-> 3, stride |-> 4, vram |-> 48]
\* Padded lines; a back buffer that is not whole pages; a portrait screen; a
\* frame buffer without room for four pictures.
SomeScreens ==
    {Screen, [Screen EXCEPT !.height = 4, !.stride = 6, !.vram = 96],
     [Screen EXCEPT !.stride = 5, !.vram = 64], [Screen EXCEPT !.height = 5, !.vram = 80],
     [Screen EXCEPT !.vram = 47]}
SomeFont == [c \in {"a", "b"} |-> IF c = "a" THEN {<<0, 0>>, <<1, 0>>} ELSE {<<1, 0>>}]
SomeStrings == {<<"a", "b">>, <<"b", "\n", "a">>}
SomePlaces == {<<0, 0>>, <<3, 1>>, <<1, 2>>, <<0, 4>>}
Image == [d \in {0, 1} \X {0, 1} |-> <<d[1] + 1, d[2] + 3, 5, 6>>]
SomeImages == {Image}
SomeWindows == {[x |-> 1, y |-> 1, width |-> 2, height |-> 2, title |-> <<"a">>],
                [x |-> 3, y |-> 0, width |-> 2, height |-> 1, title |-> <<"b">>]}
=============================================================================
