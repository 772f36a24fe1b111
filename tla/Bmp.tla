-------------------------------- MODULE Bmp ---------------------------------
(***************************************************************************)
(* bmp_draw of gui/bmp.c.  A picture is its headers: [signature,           *)
(* compression, bpp, width, height, data_offset]; a byte of the file is its*)
(* offset, and a colour the three bytes it is made of.  Width and height   *)
(* are so small that no product overflows.                                 *)
(***************************************************************************)
EXTENDS Integers

CONSTANT Screen  \* [width, height] in pixels

NoPicture == [signature |-> "none"]  \* of a file that is none

Supported(info) ==
    info.signature = "BM" /\ info.compression = 0 /\ info.bpp \in {24, 32}

bytes_per_pixel(info) == info.bpp \div 8
row_stride(info) == ((info.width * bytes_per_pixel(info) + 3) \div 4) * 4
rows(info) == IF info.height < 0 THEN -info.height ELSE info.height
file_y(info, y) == IF info.height < 0 THEN y ELSE rows(info) - 1 - y

color(info, x, y) ==
    LET blue == info.data_offset + file_y(info, y) * row_stride(info)
                + x * bytes_per_pixel(info)
    IN  [red |-> blue + 2, green |-> blue + 1, blue |-> blue]

\* What is written to the back buffer: a colour for each pixel on the screen.
bmp_draw(info, screen_x, screen_y) ==
    [p \in {<<screen_x + x, screen_y + y>> : x \in 0 .. info.width - 1,
                                            y \in 0 .. rows(info) - 1}
            \cap (0 .. Screen.width - 1) \X (0 .. Screen.height - 1) |->
        color(info, p[1] - screen_x, p[2] - screen_y)]
=============================================================================
