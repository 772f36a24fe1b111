-------------------------------- MODULE Files -------------------------------
(***************************************************************************)
(* The file system of fs/vfs.c, filled by the walk of fs/tar.c through the *)
(* ramdisk, and its readers, cmd_cat and cmd_img of shell/commands.c.      *)
(*                                                                         *)
(* An archive is a sequence of entries; memory holds their headers, each   *)
(* followed by the file's bytes padded to whole blocks, and a zero block.  *)
(* Names are atoms: those of the archive fit their field.  A size field is *)
(* a sequence of octal digits among other characters.  Of the contents, cat*)
(* cares for the first NUL (text is the number of bytes before it, or all  *)
(* of them), and bitmap for the headers of a picture (info).  The heap is  *)
(* the room that is left in it.                                            *)
(***************************************************************************)
EXTENDS Bmp, Sequences, SequencesExt, FiniteSetsExt

CONSTANTS Names,
          Archives,    \* sequences of [name, len, text, field, is_dir, info]
          BLOCK,       \* 512: a header, and what data is padded to
          LIMIT,       \* 65536: the longest file that cat shows
          HeapRoom,    \* bytes the heap can give out
          Corner       \* <<400, 100>>: where pictures are drawn

Digits == 0 .. 7
Filler == 8  \* any character that is no octal digit

\* The digits of a size field, from the right: length modulo eight, and so on.
DigitsAfter(field, k) == Cardinality({j \in k + 1 .. Len(field) : field[j] \in Digits})
Encodes(field, len) ==
    LET rest[n \in 0 .. Len(field)] == IF n = 0 THEN len ELSE rest[n - 1] \div 8
    IN  /\ \A k \in DOMAIN field :
              field[k] \in Digits => field[k] = rest[DigitsAfter(field, k)] % 8
        /\ rest[DigitsAfter(field, 0)] = 0

\* A picture's headers are numbers, and its file has all its rows.
Whole(info, len) ==
    /\ info.width \in Nat /\ info.height \in Int /\ info.data_offset \in Nat
    /\ info.data_offset + rows(info) * row_stride(info) <= len

ASSUME FilesAssumption ==
    /\ BLOCK \in Nat \ {0} /\ LIMIT \in Nat /\ HeapRoom \in Nat
    /\ Corner \in Int \X Int /\ Screen.width \in Nat /\ Screen.height \in Nat
    /\ \A a \in Archives :
          /\ a \in Seq(Range(a))
          /\ \A e \in Range(a) :
                /\ e.name \in Names /\ e.len \in Nat /\ e.is_dir \in BOOLEAN
                /\ e.text \in 0 .. e.len
                /\ e.field \in Seq(Nat) /\ Encodes(e.field, e.len)
                /\ e.is_dir \/ e.len = 0 => e.len = 0 /\ e.info = NoPicture
                /\ Supported(e.info) => Whole(e.info, e.len)

VARIABLES
    archive,
    current,     \* tar_init's pointer
    nodes,       \* the list from vfs_root on
    pc,          \* "walk" in tar_init, "idle", or cmd_cat's next step
    file,        \* the node it has opened
    heap_used,   \* bytes of the buffers that have not been freed
    shown        \* what the last command has printed or drawn

walk == <<archive, current, nodes>>
cat == <<file, heap_used, shown>>
filevars == <<walk, pc, cat>>

NULL == [name |-> "NULL"]

\* The blocks that a file's bytes take.
Blocks(len) == Min({n \in 0 .. len : n * BLOCK >= len})

\* Where the header of the i-th entry is; one past the last, the zero block.
HeaderOf(a, i) ==
    LET header[k \in 0 .. Len(a)] ==
            IF k = 0 THEN 0 ELSE header[k - 1] + BLOCK * (1 + Blocks(a[k].len))
    IN  header[i - 1]
DataOf(a, i) == HeaderOf(a, i) + BLOCK

\* The file whose bytes begin at data; one of no byte begins where another does.
FilesAt(data) == {i \in DOMAIN archive : DataOf(archive, i) = data /\ archive[i].len > 0}
TextAt(data) ==
    IF FilesAt(data) = {} THEN 0 ELSE archive[CHOOSE i \in FilesAt(data) : TRUE].text
InfoAt(data) ==
    IF FilesAt(data) = {} THEN NoPicture ELSE archive[CHOOSE i \in FilesAt(data) : TRUE].info

-----------------------------------------------------------------------------
(* fs/vfs.c *)

vfs_register_node(name, size, is_dir, data) ==
    nodes' = <<[name |-> name, size |-> size, is_dir |-> is_dir, data |-> data]>> \o nodes

\* The places in the list where vfs_open comes across that name.
Hits(name) == {k \in DOMAIN nodes : nodes[k].name = name}

OpenOldest(name) == IF Hits(name) = {} THEN NULL ELSE nodes[Max(Hits(name))]  \* Faulty

vfs_open(name) == IF Hits(name) = {} THEN NULL ELSE nodes[Min(Hits(name))]

vfs_read(node, size, offset) ==
    IF node.is_dir \/ offset >= node.size THEN 0 ELSE Min({size, node.size - offset})

-----------------------------------------------------------------------------
(* fs/tar.c *)

EveryCharacter(field) == FoldLeft(LAMBDA n, c : n * 8 + c, 0, field)  \* Faulty

octal_to_int(field) ==
    LET value[i \in 0 .. Len(field)] ==
            CASE i = 0                         -> 0
              [] i > 0 /\ field[i] \in Digits -> value[i - 1] * 8 + field[i]
              [] OTHER                         -> value[i - 1]
    IN  value[Len(field)]

padded_size(size) == ((size + BLOCK - 1) \div BLOCK) * BLOCK

Empty ==
    /\ current = 0 /\ nodes = <<>>
    /\ file = NULL /\ heap_used = 0 /\ shown = NULL
FilesInit == archive \in Archives /\ pc = "walk" /\ Empty

ParseEntry ==
    /\ pc = "walk"
    /\ \E i \in DOMAIN archive :
          LET size == octal_to_int(archive[i].field)
              data == current + BLOCK
          IN  /\ HeaderOf(archive, i) = current
              /\ vfs_register_node(archive[i].name, size, archive[i].is_dir, data)
              /\ current' = data + padded_size(size)
    /\ UNCHANGED <<archive, pc, cat>>

EndOfArchive(next) ==
    /\ pc = "walk" /\ current = HeaderOf(archive, Len(archive) + 1)
    /\ pc' = next /\ UNCHANGED <<walk, cat>>

-----------------------------------------------------------------------------
(* cmd_cat *)

Proceed(p) == pc' = p /\ UNCHANGED <<walk, file>>
Say(name, text) == shown' = [command |-> "cat", name |-> name, text |-> text]
Return == pc' = "idle" /\ file' = NULL /\ UNCHANGED walk

Open(name) ==
    /\ pc = "idle"
    /\ \/ vfs_open(name) = NULL /\ Say(name, <<"not found">>) /\ UNCHANGED <<pc, file>>
       \/ /\ vfs_open(name) # NULL /\ vfs_open(name).is_dir
          /\ Say(name, <<"directory">>) /\ UNCHANGED <<pc, file>>
       \/ /\ vfs_open(name) # NULL /\ ~vfs_open(name).is_dir
          /\ pc' = "alloc" /\ file' = vfs_open(name) /\ UNCHANGED shown
    /\ UNCHANGED <<walk, heap_used>>

\* kmalloc panics when the heap cannot grow; it never returns NULL.
AllocBuffer ==
    /\ pc = "alloc"
    /\ \/ /\ heap_used + file.size + 1 <= HeapRoom
          /\ heap_used' = heap_used + file.size + 1 /\ Proceed("check")
       \/ /\ heap_used + file.size + 1 > HeapRoom
          /\ Proceed("panic") /\ UNCHANGED heap_used
    /\ UNCHANGED shown

TooLarge ==
    /\ pc = "check" /\ file.size > LIMIT
    /\ Say(file.name, <<"too large">>) /\ Return /\ UNCHANGED heap_used

\* "%s" prints the buffer up to its first NUL: the file's, or the one behind
\* the bytes that were read.
Printed(node) == Min({vfs_read(node, node.size, 0), TextAt(node.data)})

Show ==
    /\ pc = "check" /\ file.size <= LIMIT
    /\ Say(file.name, <<file.data, Printed(file)>>)
    /\ Proceed("free") /\ UNCHANGED heap_used

FreeBuffer ==
    /\ pc = "free" /\ heap_used' = heap_used - (file.size + 1)
    /\ Return /\ UNCHANGED shown

-----------------------------------------------------------------------------
(* cmd_img, the command bitmap *)

Picture(name) ==
    LET node == vfs_open(name)
        info == InfoAt(node.data)
    IN  IF node = NULL THEN <<"not found">>
        ELSE IF node.is_dir THEN <<"directory">>
        ELSE IF ~Supported(info) THEN <<"no picture">>
        ELSE <<node.data, Corner, bmp_draw(info, Corner[1], Corner[2])>>

Img(name) ==
    /\ pc = "idle"
    /\ shown' = [command |-> "bitmap", name |-> name, text |-> Picture(name)]
    /\ UNCHANGED <<walk, pc, file, heap_used>>

-----------------------------------------------------------------------------
Cat == (\E name \in Names : Open(name)) \/ AllocBuffer \/ TooLarge \/ Show \/ FreeBuffer

Reader == Cat \/ \E name \in Names : Img(name)
FilesNext == ParseEntry \/ EndOfArchive("idle") \/ Reader
FilesSpec == FilesInit /\ [][FilesNext]_filevars

-----------------------------------------------------------------------------
(* Properties *)

\* The node an entry should become.
NodeOf(i) ==
    [name |-> archive[i].name, size |-> archive[i].len,
     is_dir |-> archive[i].is_dir, data |-> DataOf(archive, i)]

(* The walk never loses the headers: the files of the archive are          *)
(* registered one by one, newest first, each with its own length and its   *)
(* own bytes, and none is missing at the end.                              *)
FilesFound ==
    /\ nodes = Reverse([i \in DOMAIN nodes |-> NodeOf(i)])
    /\ pc \in {"idle", "alloc", "check", "free"} => Len(nodes) = Len(archive)

\* A picture's pixels from left to right and top to bottom: a row's bytes
\* are padded to a multiple of four, and rows of positive height stored last
\* one first.
RowOf(info, n) ==
    LET used == info.width * (info.bpp \div 8)
        padded == Min({b \in used .. used + 3 : b % 4 = 0})
    IN  [x \in 1 .. info.width |->
            info.data_offset + n * padded + (x - 1) * (info.bpp \div 8)]
TopDown(info) ==
    IF info.height < 0 THEN [n \in 1 .. -info.height |-> RowOf(info, n - 1)]
                       ELSE Reverse([n \in 1 .. info.height |-> RowOf(info, n - 1)])

\* The drawing is the picture with its corner at Corner, as far as the screen
\* goes, each pixel its three bytes in the order blue, green, red, and all its
\* bytes are the file's.
IsDrawn(pixels, info, len) ==
    /\ \A x \in 0 .. Screen.width - 1, y \in 0 .. Screen.height - 1 :
          LET row == y - Corner[2] + 1
              column == x - Corner[1] + 1
              inside == row \in DOMAIN TopDown(info) /\ column \in 1 .. info.width
          IN  /\ inside <=> <<x, y>> \in DOMAIN pixels
              /\ inside => LET first == TopDown(info)[row][column]
                           IN  pixels[<<x, y>>] = [blue |-> first, green |-> first + 1,
                                                   red |-> first + 2]
    /\ \A p \in DOMAIN pixels : pixels[p].red < len

(* What cat and bitmap show is what the archive says of that name, of its  *)
(* last entry where there are several: its bytes up to their first NUL, its*)
(* picture, or why not.                                                    *)
ShowsTheFile ==
    shown # NULL =>
        LET entries == {i \in DOMAIN archive : archive[i].name = shown.name}
            i == Max(entries)
            text == shown.text
        IN  IF entries = {} THEN text = <<"not found">>
            ELSE IF archive[i].is_dir THEN text = <<"directory">>
            ELSE IF shown.command = "cat"
                 THEN text = IF archive[i].len > LIMIT THEN <<"too large">>
                             ELSE <<DataOf(archive, i), archive[i].text>>
            ELSE IF archive[i].info # NoPicture /\ Supported(archive[i].info)
                 THEN text[1] = DataOf(archive, i)
                      /\ IsDrawn(text[3], archive[i].info, archive[i].len)
            ELSE text = <<"no picture">>

(* "Protect against out-of-memory": a file that does not fit into the heap *)
(* is reported, and the system goes on.                                    *)
CatSurvivesNoMemory == pc # "panic"
=============================================================================
