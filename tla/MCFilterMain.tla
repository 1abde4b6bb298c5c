---------------------------- MODULE MCFilterMain ----------------------------
(***************************************************************************)
(* Instances of FilterMain: image files of a few pixels, as other programs *)
(* write them, and three of the filters of the lab.                        *)
(***************************************************************************)
EXTENDS FilterMain

\* A number of at most a byte in two or four bytes; a negative one fills them up.
Two(n) == <<n, 0>>
Four(n) == IF n >= 0 THEN <<n, 0, 0, 0>> ELSE <<256 + n, 255, 255, 255>>

\* Some byte for a place in an image; the values of neighbours are far apart.
Shade(r, c, k) == (r * 83 + c * 151 + k * 57 + 20) % 256

Height(h) == IF h < 0 THEN -h ELSE h

\* The lines of an image, filled up to four bytes with the byte 255.
Pixels(w, h, perPixel) ==
  LET stride == ((8 * perPixel * w + 31) \div 32) * 4
  IN  [n \in 1 .. Height(h) * stride |->
         LET at == (n - 1) % stride
         IN  IF at < perPixel * w
             THEN Shade((n - 1) \div stride, at \div perPixel, at % perPixel)
             ELSE 255]

Palette(colors) == [n \in 1 .. 4 * colors |-> 7]

Bmp(w, h, bits, colors) ==
  LET data == Palette(colors) \o Pixels(w, h, bits \div 8)
  IN  <<66, 77>> \o Four(54 + Len(data)) \o Two(0) \o Two(0)
        \o Four(54 + 4 * colors)
        \o Four(40) \o Four(w) \o Four(h) \o Two(1) \o Two(bits) \o Four(0)
        \o Four(0) \o Four(0) \o Four(0) \o Four(colors) \o Four(0)
        \o data

Cut(f, n) == SubSeq(f, 1, Len(f) - n)

\* Even and odd interiors, with and without padding, a palette, no interior at all;
\* 8 bits a pixel; stored from the top; cut short in a pixel, in the last padding,
\* in the padding of another line, in the header; not a BMP file.
Contents ==
  [even    |-> Bmp(4, 4, 24, 0),
   odd     |-> Bmp(5, 4, 24, 0),
   narrow  |-> Bmp(3, 3, 24, 0),
   palette |-> Bmp(6, 3, 24, 2),
   dot     |-> Bmp(2, 1, 24, 0),
   empty   |-> Bmp(0, 3, 24, 0),
   gray    |-> Bmp(3, 3, 8, 1),
   one     |-> Bmp(3, 3, 16, 0),
   topdown |-> Bmp(4, -3, 24, 0),
   cut     |-> Cut(Bmp(5, 4, 24, 0), 2),
   short   |-> Cut(Bmp(5, 4, 24, 0), 1),
   half    |-> Cut(Bmp(5, 4, 24, 0), 33),
   header  |-> SubSeq(Bmp(4, 4, 24, 0), 1, 40),
   text    |-> <<77, 66>> \o SubSeq(Bmp(4, 4, 24, 0), 3, 60)]

SmallImages == [n \in {<<name>> : name \in DOMAIN Contents} |-> Contents[n[1]]]

\* One image, two images, an image that was just written, the same image twice.
SmallCommandLines ==
  {<<n>> : n \in DOMAIN SmallImages}
    \cup {<<<<n>>, <<"odd">>>> : n \in {"missing", "even", "cut", "text", "narrow"}}
    \cup {<<<<n>>, OutputName(<<n>>)>> : n \in {"even", "odd", "narrow", "header"}}
    \cup {<<<<"dot">>, <<"even">>, <<"even">>>>}

Weights(rows) == [t \in (0 .. 2) \X (0 .. 2) |-> rows[t[1] + 1][t[2] + 1]]

LabFilters ==
  {[size |-> 3, divisor |-> 1,
    data |-> Weights(<<<<-1, -2, -1>>, <<0, 0, 0>>, <<1, 2, 1>>>>)],
   [size |-> 3, divisor |-> 24,
    data |-> Weights(<<<<0, 4, 0>>, <<4, 8, 4>>, <<0, 4, 0>>>>)],
   [size |-> 3, divisor |-> 20,
    data |-> Weights(<<<<11, 10, 1>>, <<-1, -1, -1>>, <<-1, -1, -1>>>>)]}

\* The files and the filters are such that their results are to be filtered.
ASSUME InstanceOrdinary == bmp_byte_swap /\ OrdinaryImages /\ SmallFilters

=============================================================================
