---------------------------- MODULE ImageLayout ----------------------------
(***************************************************************************)
(* Where the pixels of an image are.  The backend creates an image, the    *)
(* kernel plans its layout, and from then on five parties address it by    *)
(* what each derived from the descriptor and the modifier: the CPU's       *)
(* swizzle (Context::transfer), the 902D copy engine (uploads, blits and   *)
(* copies), the render target and the depth target, and the texture unit,  *)
(* which finds mip levels and layers by itself.  An image is written by    *)
(* some of them and read by the others.                                    *)
(*                                                                         *)
(* Every image has four bytes a pixel in memory (mem, by byte offset);     *)
(* want holds what the client last wrote to a pixel, by level and layer.   *)
(* A pixel is the write it came from and the order of its channels.        *)
(***************************************************************************)
EXTENDS Integers, Sequences, FiniteSets
LOCAL INSTANCE TLC
LOCAL INSTANCE FiniteSetsExt

CONSTANTS
  Slots,            \* the images of a behaviour
  Descriptors,      \* of a slot: the logical descriptors its image may be created from
  Devices,          \* [extended, depth]: what the device reports
  RectsOf(_, _),    \* the rectangles written in an area of a width and a height
  Paddings,         \* bytes a client leaves between its rows
  MaxUpload,        \* GPU_MAX_IMAGE_UPLOAD_SIZE
  MaxWrites            \* writes of a behaviour

VARIABLES device, img, mem, want, writes, verdict
image_vars == <<device, img, mem, want, writes, verdict>>

Refusal == [ok |-> FALSE]
Rect(x, y, w, h) == [x |-> x, y |-> y, w |-> w, h |-> h]
Pixels(r) == (r.x .. r.x + r.w - 1) \X (r.y .. r.y + r.h - 1)

(***************************************************************************)
(* maxwell-image-layout: planning.                                         *)
(***************************************************************************)
MAX_DIMENSION == 16384
MAX_MIP_LEVELS == 15
MAX_ARRAY_LAYERS == 2048
align(value, alignment) == ((value + alignment - 1) \div alignment) * alignment
tile_y_log2(height, maximum) ==
  LET fits == {k \in 0..maximum : 2 ^ k >= (height + 7) \div 8}
  IN IF fits = {} THEN maximum ELSE Min(fits)

Linear == [tiled |-> FALSE, y |-> 0, clamp |-> FALSE]
BlockLinear(y, clamp) == [tiled |-> TRUE, y |-> y, clamp |-> clamp]
LevelExtent(v, mip) == Max({v \div 2 ^ mip, 1})
Descriptor(w, h, mips, layers) == [width |-> w, height |-> h, mips |-> mips, layers |-> layers]
Chain(d) == d.mips > 1 \/ d.layers > 1

\* A layer begins on a tile of its first level.
layer_alignment_flat(kind, levels) == 1
layer_alignment(kind, levels) == IF kind.tiled THEN 512 * 2 ^ levels[0].tile_y_log2 ELSE 1

plan(d, kind) ==
  LET valid == /\ d.width \in 1..MAX_DIMENSION /\ d.height \in 1..MAX_DIMENSION
               /\ d.layers \in 1..MAX_ARRAY_LAYERS
               /\ d.mips \in 1..MAX_MIP_LEVELS
               /\ 2 ^ (d.mips - 1) <= Max({d.width, d.height})
               /\ Chain(d) => kind.tiled /\ kind.clamp
      levels[m \in 0 .. d.mips - 1] ==
        LET w == LevelExtent(d.width, m)
            h == LevelExtent(d.height, m)
            y == IF kind.clamp THEN tile_y_log2(h, kind.y) ELSE kind.y
            pitch == align(4 * w, IF kind.tiled THEN 64 ELSE 256)
            before == IF m = 0 THEN [offset |-> 0, size |-> 0] ELSE levels[m - 1]
        IN [offset |-> before.offset + before.size, width |-> w, height |-> h, row_pitch |-> pitch,
            size |-> pitch * (IF kind.tiled THEN align(h, 8 * 2 ^ y) ELSE h), tile_y_log2 |-> y]
      cursor == levels[d.mips - 1].offset + levels[d.mips - 1].size
      pitch == IF d.layers > 1 THEN align(cursor, layer_alignment(kind, levels)) ELSE cursor
  IN IF valid THEN [ok |-> TRUE, d |-> d, kind |-> kind, levels |-> levels,
                    array_pitch |-> pitch, total_size |-> pitch * d.layers]
              ELSE Refusal

subresource(l, mip, layer) ==
  IF mip < l.d.mips /\ layer < l.d.layers
  THEN [ok |-> TRUE, offset |-> layer * l.array_pitch + l.levels[mip].offset,
        level |-> l.levels[mip], layer |-> layer, mip |-> mip]
  ELSE Refusal
Within(r, w, h) == r.w > 0 /\ r.h > 0 /\ r.x + r.w <= w /\ r.y + r.h <= h
transfer(l, mip, layer, r) ==
  LET sub == subresource(l, mip, layer)
  IN IF sub.ok /\ Within(r, sub.level.width, sub.level.height)
     THEN [ok |-> TRUE, offset |-> sub.offset + r.y * sub.level.row_pitch + 4 * r.x,
           row_pitch |-> sub.level.row_pitch, array_pitch |-> l.array_pitch, rect |-> r]
     ELSE Refusal
\* The level a rectangle of the linear staging copy belongs to.
resolve_transfer(l, t) ==
  LET base == t.offset - (t.rect.y * t.row_pitch + 4 * t.rect.x)
      layer == base \div l.array_pitch
      mips == {m \in DOMAIN l.levels : /\ l.levels[m].offset = base % l.array_pitch
                                       /\ l.levels[m].row_pitch = t.row_pitch}
  IN IF t.array_pitch = l.array_pitch /\ base >= 0 /\ mips # {}
        /\ transfer(l, Min(mips), layer, t.rect) = t
     THEN subresource(l, Min(mips), layer) ELSE Refusal
block_linear_offset(x, y, pitch, tile_y) ==
  LET block_height == 8 * 2 ^ tile_y
  IN ((y \div block_height) * (pitch \div 64) + x \div 64) * (512 * 2 ^ tile_y)
     + ((y % block_height) \div 8) * 512 + ((x % 64) \div 32) * 256 + ((y % 8) \div 2) * 64
     + ((x % 32) \div 16) * 32 + (y % 2) * 16 + (x % 16)
byte_offset(l, sub, x, y) ==
  sub.offset + (IF l.kind.tiled
                THEN block_linear_offset(x, y, sub.level.row_pitch, sub.level.tile_y_log2)
                ELSE y * sub.level.row_pitch + x)

(***************************************************************************)
(* Creating an image.  A logical descriptor has a format, usages and a     *)
(* shape; the ABI knows a colour and a depth format and its own usages.    *)
(***************************************************************************)
Narrow == {"r8", "rg8"}
Srgb == {"bgra_srgb", "rgba_srgb"}
Has(d, u) == u \in d.usage
image_create_parameters(d) ==
  IF d.format = "depth"
  THEN [format |-> "depth", usage |-> (IF Has(d, "attachment") THEN {"depth"} ELSE {})
                                      \cup (d.usage \cap {"sampled"})]
  ELSE [format |-> "bgra",
        usage |-> (IF Has(d, "attachment") THEN {"target"} ELSE {})
                  \cup (IF Has(d, "attachment") /\ d.format \in Narrow THEN {"sampled"} ELSE {})
                  \cup (IF Has(d, "present") THEN {"presentable", "src"} ELSE {})
                  \cup (IF Has(d, "sampled") THEN {"sampled"} ELSE {})
                  \cup (IF Has(d, "copy_src") THEN {"sampled", "src"} ELSE {})
                  \cup (IF Has(d, "copy_dst") THEN {"dst", "target", "sampled"} ELSE {})]
native_image_usage(d, format, usage, depth) ==
  IF d.one_d /\ format # "depth" THEN usage \cup {"target", "depth_compatible"}
  ELSE IF "target" \in usage /\ depth THEN usage \cup {"depth_compatible"} ELSE usage
CreateInfo(d) ==
  LET p == image_create_parameters(d)
  IN [format |-> p.format, usage |-> native_image_usage(d, p.format, p.usage, device.depth),
      width |-> d.width, height |-> d.height, mips |-> d.mips, layers |-> d.layers, cube |-> d.cube]

Shape(c) == Descriptor(c.width, c.height, c.mips, c.layers)
IsChain(c) == Chain(c) \/ c.cube
\* An image that is sampled has the tile height the texture unit will use.
base_y_log2(c) ==
  IF IsChain(c) \/ "sampled" \in c.usage THEN tile_y_log2(c.height, 4) ELSE 4
Planned(p, family) ==
  IF p.ok
  THEN [ok |-> TRUE, total_size |-> p.total_size, row_pitch |-> p.levels[0].row_pitch,
        array_pitch |-> p.array_pitch,
        modifier |-> [family |-> family, y |-> p.levels[0].tile_y_log2]]
  ELSE Refusal
plan_image(c) ==
  LET depth == c.format = "depth"
      screen == {"presentable", "target"} \subseteq c.usage /\ c.width = 1280 /\ c.height = 720
      tiled == IsChain(c) \/ depth \/ "depth_compatible" \in c.usage \/ screen
      supported == /\ c.usage # {}
                   /\ depth => c.usage \subseteq {"depth", "sampled"}
                   /\ c.cube => c.layers = 6 /\ c.width = c.height
                   /\ "presentable" \in c.usage => ~IsChain(c)
  IN IF supported
     THEN Planned(plan(Shape(c), IF tiled THEN BlockLinear(base_y_log2(c), IsChain(c)) ELSE Linear),
                   IF ~tiled THEN "linear" ELSE IF depth THEN "depth" ELSE "color")
     ELSE Refusal

\* The layout both sides rebuild from the modifier, and what must agree with it.
Agreed(p, layout) ==
  IF /\ p.ok /\ p.total_size = layout.total_size
     /\ p.levels[0].row_pitch = layout.row_pitch /\ p.array_pitch = layout.array_pitch
  THEN p ELSE Refusal
Rebuilt(shape, layout, clamp) ==
  Agreed(plan(shape, IF layout.modifier.family = "linear" THEN Linear
                     ELSE BlockLinear(layout.modifier.y, clamp)), layout)
image_subresources(c, layout) == Rebuilt(Shape(c), layout, IsChain(c))
validate_image_subresources(d, layout) ==
  IF (d.format = "depth") = (layout.modifier.family = "depth")
  THEN Rebuilt(Descriptor(d.width, d.height, d.mips, d.layers), layout, Chain(d)) ELSE Refusal
CreatedAs(d, c, layout) ==
  [made |-> layout.ok, d |-> d, c |-> c, layout |-> layout,
   sub |-> IF layout.ok THEN validate_image_subresources(d, layout) ELSE Refusal]
Created(d) == CreatedAs(d, CreateInfo(d), plan_image(CreateInfo(d)))
Absent == [made |-> FALSE]

(***************************************************************************)
(* Surfaces, as the code generator states them and the kernel requires     *)
(* them.  A tile mode is 0 for rows, 16 y + 256 for tiles of height y, and *)
(* 64 for the tiles of height 4 of an image without a chain.               *)
(***************************************************************************)
append_image_resource(i) ==
  LET m == img[i].layout.modifier
  IN [family |-> m.family, y |-> m.y, fixed |-> ~Chain(img[i].d) /\ m.y = 4]
ModeOf(m) == IF m.family = "linear" THEN 0 ELSE IF m.fixed THEN 64 ELSE 256 + 16 * m.y
\* validate_image_layout: the layout the modifier names is the one in the metadata.
validate_image_layout(i) ==
  LET m == append_image_resource(i)
      l == img[i].sub
      kind == IF m.family = "linear" THEN Linear
              ELSE IF m.fixed THEN BlockLinear(4, FALSE) ELSE BlockLinear(m.y, Chain(l.d))
  IN kind = l.kind /\ plan(l.d, l.kind) = l /\ (m.family = "depth") = (img[i].d.format = "depth")
Surface(i) ==
  [image |-> i, offset |-> 0, width |-> img[i].d.width, height |-> img[i].d.height,
   pitch |-> img[i].layout.row_pitch, mode |-> ModeOf(append_image_resource(i))]
require_image_surface(i, usage) ==
  /\ Has(img[i].d, usage) /\ validate_image_layout(i)
  /\ img[i].d.format = "depth" => usage = "sampled"
require_target_surface(i, usage) ==
  /\ require_image_surface(i, usage)
  /\ img[i].d.format \in {"bgra", "rgba"} \cup (IF usage = "attachment" THEN Narrow ELSE {})
require_depth_surface(i) ==
  img[i].d.format = "depth" /\ Has(img[i].d, "attachment") /\ validate_image_layout(i)
surface(i, s, usage) ==
  LET c == img[i].c
      m == img[i].layout.modifier
  IN /\ c.format = (IF usage = "depth" \/ (usage = "sampled" /\ c.format = "depth")
                    THEN "depth" ELSE "bgra")
     /\ <<s.width, s.height, s.pitch>> = <<c.width, c.height, img[i].layout.row_pitch>>
     /\ s.mode = (IF m.family = "linear" THEN 0
                  ELSE IF Chain(c) \/ m.y # 4 THEN 256 + 16 * m.y ELSE 64)
     /\ usage \in c.usage

(***************************************************************************)
(* The engines.  A surface in tiles is 64-byte columns of its width, in    *)
(* blocks of the height its mode names; the texture unit lowers the height *)
(* for every level, packs the levels and aligns the layers by itself.      *)
(***************************************************************************)
Gob(x, y) == ((x % 64) \div 32) * 256 + ((y % 8) \div 2) * 64 + ((x % 32) \div 16) * 32
             + (y % 2) * 16 + (x % 16)
Tiled(width, h, x, y) ==
  LET columns == (4 * width + 63) \div 64
      gob == ((y \div (8 * h)) * columns + x \div 64) * h + (y % (8 * h)) \div 8
  IN 512 * gob + Gob(x, y)
InTiles(mode) == mode = 64 \/ mode >= 256
EngineOffset(s, x, y) ==
  s.offset + (IF InTiles(s.mode) THEN Tiled(s.width, 2 ^ ((s.mode \div 16) % 8), 4 * x, y)
              ELSE y * s.pitch + 4 * x)
TextureTile(t, lod) ==
  Min({h \in {2 ^ k : k \in 0 .. t.y} : 8 * h >= LevelExtent(t.height, lod)} \cup {2 ^ t.y})
TextureBytes(t, lod) ==
  align(4 * LevelExtent(t.width, lod), 64) * align(LevelExtent(t.height, lod), 8 * TextureTile(t, lod))
TextureOffset(t, lod, layer, x, y) ==
  LET size[n \in 0 .. t.mips] == IF n = 0 THEN 0 ELSE size[n - 1] + TextureBytes(t, n - 1)
      stride == align(size[t.mips], 512 * TextureTile(t, 0))
  IN IF t.tiled
     THEN t.offset + layer * stride + size[lod]
          + Tiled(LevelExtent(t.width, lod), TextureTile(t, lod), 4 * x, y)
     ELSE t.offset + y * t.pitch + 4 * x
TileMode(tiled, y) == IF tiled THEN 256 + 16 * y ELSE 0

(***************************************************************************)
(* Pixels.  The client's order of channels, and the order in memory.       *)
(***************************************************************************)
Pixel(v, bytes) == [v |-> v, bytes |-> bytes]
Junk == Pixel(<<0, 0, 0>>, <<>>)
ClientBytes(format) ==
  CASE format \in {"bgra", "bgra_srgb"} -> <<"b", "g", "r", "a">>
    [] format \in {"rgba", "rgba_srgb"} -> <<"r", "g", "b", "a">>
    [] format = "r8" -> <<"r">>
    [] format = "rg8" -> <<"r", "g">>
    [] format = "depth" -> <<"d">>
color_bytes_per_pixel(format) == Len(ClientBytes(format))
ToBgra(format, s) ==
  CASE format \in {"rgba", "rgba_srgb"} -> <<s[3], s[2], s[1], s[4]>>
    [] format = "r8" -> <<"0", "0", "0", s[1]>>
    [] format = "rg8" -> <<"0", s[2], s[1], "1">>
    [] OTHER -> s
\* Rows of pixels: what a buffer holds at a byte offset.
Rows(r, stride, bpp, at) ==
  [o \in {k * stride + c * bpp : k \in 0 .. r.h - 1, c \in 0 .. r.w - 1} |->
     at[(o % stride) \div bpp, o \div stride]]
prepare_bgra_upload(format, r, stride, data) ==
  IF format \in {"bgra", "bgra_srgb"} THEN [bytes_per_row |-> stride, pixels |-> data]
  ELSE LET bpp == color_bytes_per_pixel(format)
           bgra == [c \in 0 .. r.w - 1, k \in 0 .. r.h - 1 |->
                      LET p == data[k * stride + c * bpp] IN Pixel(p.v, ToBgra(format, p.bytes))]
       IN [bytes_per_row |-> 4 * r.w, pixels |-> Rows(r, 4 * r.w, 4, bgra)]
convert_bgra_readback(format, p) ==
  LET s == p.bytes
  IN Pixel(p.v, IF s = <<>> THEN s
                ELSE CASE format \in {"rgba", "rgba_srgb"} -> <<s[3], s[2], s[1], s[4]>>
                       [] format = "r8" -> <<s[4]>>
                       [] format = "rg8" -> <<s[3], s[2]>>
                       [] OTHER -> s)
\* What rendering a colour leaves in memory.
Rendered(format) == ToBgra(format, ClientBytes(format))
Read(i, o) == IF o \in DOMAIN mem[i] THEN mem[i][o] ELSE Junk

(***************************************************************************)
(* The CPU's way through the staging copy, in runs of sixteen bytes.  The  *)
(* result relates staging offsets to offsets in the image.                 *)
(***************************************************************************)
Runs(i, r, l, t, sub) ==
  LET Run(x) == Max({4 * r.x, 4 * x - ((4 * x) % 16)})
  IN IF ~sub.ok \/ img[i].c.format # "bgra" THEN {}
     ELSE {[x |-> p[1], y |-> p[2], staged |-> sub.offset + p[2] * sub.level.row_pitch + 4 * p[1],
            gpu |-> IF l.kind.tiled
                    THEN byte_offset(l, sub, Run(p[1]), p[2]) + (4 * p[1] - Run(p[1]))
                    ELSE t.offset + (p[2] - r.y) * t.row_pitch + 4 * (p[1] - r.x)] : p \in Pixels(r)}
Resolved(i, r, l, t) == Runs(i, r, l, t, IF t.ok THEN resolve_transfer(l, t) ELSE Refusal)
TransferredIn(l, i, mip, layer, r) == Resolved(i, r, l, transfer(l, mip, layer, r))
Transferred(i, mip, layer, r) ==
  TransferredIn(image_subresources(img[i].c, img[i].layout), i, mip, layer, r)
\* The function a set of pairs is.
Paired(all) == [o \in {a[1] : a \in all} |-> (CHOOSE a \in all : a[1] = o)[2]]

legacy_upload_batch_rows(row_bytes, stride) == (MaxUpload - row_bytes) \div stride + 1
\* One transfer for every batch of rows the ABI accepts: image offset to pixel.
LegacyImageUpload(i, r, up) ==
  LET rows == legacy_upload_batch_rows(4 * r.w, up.bytes_per_row)
      Batch(row) == Rect(r.x, r.y + row, r.w, Min({rows, r.h - row}))
      Written(row) == {<<t.gpu, up.pixels[(row + (t.y - (r.y + row))) * up.bytes_per_row
                                          + 4 * (t.x - r.x)]>> : t \in Transferred(i, 0, 0, Batch(row))}
  IN Paired(UNION {Written(rows * k) : k \in 0 .. (r.h - 1) \div rows})

(***************************************************************************)
(* Image commands: the record, the resources declared with it, and the     *)
(* words the kernel lowers it to.                                          *)
(***************************************************************************)
Buffer == 0
upload_span(c) == (c.source_rect.h - 1) * c.source_stride + 4 * c.source_rect.w
validate(c) ==
  /\ c.source_rect.w > 0 /\ c.source_rect.h > 0 /\ c.destination_rect.w > 0 /\ c.destination_rect.h > 0
  /\ c.opcode = "upload" =>
       /\ c.source_mip = 0 /\ c.source_layer = 0 /\ c.source_rect.x = 0 /\ c.source_rect.y = 0
       /\ c.source_rect.w = c.destination_rect.w /\ c.source_rect.h = c.destination_rect.h
       /\ ~c.flip_x /\ ~c.flip_y /\ c.source_stride >= 4 * c.source_rect.w
  /\ c.opcode = "blit" => c.source_stride = 0
encode_command(c, images, buffers) ==
  LET same == c.source = c.destination
      Access(i) == IF same THEN {"read", "write"}
                   ELSE IF i = c.destination THEN {"write"} ELSE {"read"}
  IN [k \in DOMAIN images |-> [token |-> images[k], size |-> img[images[k]].layout.total_size,
                               access |-> Access(images[k])]]
     \o [k \in DOMAIN buffers |-> [token |-> Buffer, size |-> buffers[k], access |-> {"read"}]]
declared_range(resources, token, access) ==
  LET found == {k \in DOMAIN resources : resources[k].token = token /\ access \in resources[k].access}
  IN IF found = {} THEN 0 ELSE resources[Min(found)].size
image_layout(i, usage) ==
  IF /\ img[i].c.format = "bgra" /\ usage \in img[i].c.usage
     /\ img[i].layout.modifier.family \in {"linear", "color"}
  THEN Rebuilt(Shape(img[i].c), img[i].layout, IsChain(img[i].c)) ELSE Refusal
SideOf(l, i, mip, layer, r, range) ==
  LET sub == IF l.ok THEN subresource(l, mip, layer) ELSE Refusal
  IN IF sub.ok /\ Within(r, sub.level.width, sub.level.height) /\ sub.offset + sub.level.size <= range
     THEN [ok |-> TRUE, image |-> i, offset |-> sub.offset, width |-> sub.level.width,
           height |-> sub.level.height, pitch |-> sub.level.row_pitch, size |-> sub.level.size,
           mode |-> TileMode(l.kind.tiled, sub.level.tile_y_log2)]
     ELSE Refusal
ImageSide(i, usage, mip, layer, r, range) == SideOf(image_layout(i, usage), i, mip, layer, r, range)
BufferSide(c, range) ==
  IF c.source_stride % 32 = 0 /\ upload_span(c) <= range
  THEN [ok |-> TRUE, image |-> Buffer, offset |-> 0, width |-> c.source_rect.w, height |-> c.source_rect.h,
        pitch |-> c.source_stride, size |-> upload_span(c), mode |-> 0]
  ELSE Refusal
overlaps(a, b) == a.image = b.image /\ a.offset < b.offset + b.size /\ b.offset < a.offset + a.size
Lowered(c, dst, src) ==
  IF validate(c) /\ dst.ok /\ src.ok
  THEN [ok |-> TRUE, alias |-> overlaps(dst, src), dst |-> dst, src |-> src, c |-> c] ELSE Refusal
lower(c, resources) ==
  LET range == declared_range(resources, c.source, "read")
  IN Lowered(c, ImageSide(c.destination, "dst", c.destination_mip, c.destination_layer,
                          c.destination_rect, declared_range(resources, c.destination, "write")),
             IF c.opcode = "upload" THEN BufferSide(c, range)
             ELSE ImageSide(c.source, "src", c.source_mip, c.source_layer, c.source_rect, range))
\* The 902D copy: destination offset to source offset.
copy(w) ==
  LET c == w.c
      Source(p) == <<IF c.flip_x THEN c.source_rect.x + c.source_rect.w - 1 - p[1]
                     ELSE c.source_rect.x + p[1],
                     IF c.flip_y THEN c.source_rect.y + c.source_rect.h - 1 - p[2]
                     ELSE c.source_rect.y + p[2]>>
  IN Paired({<<EngineOffset(w.dst, c.destination_rect.x + p[1], c.destination_rect.y + p[2]),
               EngineOffset(w.src, Source(p)[1], Source(p)[2])>> :
               p \in (0 .. c.destination_rect.w - 1) \X (0 .. c.destination_rect.h - 1)})

(***************************************************************************)
(* Views of the programmable path.                                         *)
(***************************************************************************)
ViewOf(l, i, level, count, layer, layers, usage) ==
  LET first == subresource(l, level, layer)
      last == subresource(l, level + count - 1, layer + layers - 1)
      physical == IF usage = "sampled" THEN subresource(l, 0, layer) ELSE first
  IN IF /\ usage \in img[i].c.usage /\ l.ok /\ first.ok /\ last.ok
        /\ last.offset + last.level.size <= l.total_size
     THEN [ok |-> TRUE, image |-> i, offset |-> physical.offset, width |-> physical.level.width,
           height |-> physical.level.height, pitch |-> physical.level.row_pitch,
           tiled |-> l.kind.tiled, y |-> physical.level.tile_y_log2, mips |-> img[i].c.mips,
           layers |-> layers, cube |-> img[i].c.cube, start |-> first.offset,
           mode |-> TileMode(l.kind.tiled, physical.level.tile_y_log2)]
     ELSE Refusal
programmable_image(i, level, count, layer, layers, usage) ==
  ViewOf(image_subresources(img[i].c, img[i].layout), i, level, count, layer, layers, usage)
\* The order in which the texture unit takes the bytes for red, green, blue and alpha.
Channels(format, alpha_mask) ==
  CASE format = 2 -> IF alpha_mask THEN [a |-> 4] ELSE [r |-> 4]
    [] format = 3 -> [r |-> 3, g |-> 2]
    [] format = 6 -> [d |-> 1]
    [] OTHER -> [r |-> 3, g |-> 2, b |-> 1, a |-> 4]
texture(t, format, alpha_mask, dimension) ==
  IF /\ t.mips \in 1..MAX_MIP_LEVELS
     /\ ~t.tiled => t.mips = 1 /\ t.layers = 1 /\ dimension = "D2" /\ t.pitch % 32 = 0
     /\ dimension = "D2" => t.layers = 1
     /\ dimension = "Cube" => t.width = t.height /\ t.layers = 6
     /\ alpha_mask => format = 2
  THEN [ok |-> TRUE, channels |-> Channels(format, alpha_mask)] @@ t ELSE Refusal
Dimension(t) == IF t.cube THEN "Cube" ELSE IF t.layers > 1 THEN "D2Array" ELSE "D2"
sample_format(f) ==
  CASE f = "bgra" -> 0 [] f = "rgba" -> 1 [] f = "r8" -> 2 [] f = "rg8" -> 3
    [] f = "bgra_srgb" -> 4 [] f = "rgba_srgb" -> 5 [] f = "depth" -> 6
tic(t, f) == texture(t, IF f \in {"bgra", "rgba"} THEN 0 ELSE sample_format(f), FALSE, Dimension(t))
\* The descriptor of a fixed draw, from the surface in its record.
draw_tic(i) ==
  LET s == Surface(i)
  IN texture([image |-> i, offset |-> 0, width |-> s.width, height |-> s.height, pitch |-> s.pitch,
              tiled |-> InTiles(s.mode), y |-> (s.mode \div 16) % 8, mips |-> img[i].d.mips,
              layers |-> 1, cube |-> FALSE],
             sample_format(img[i].d.format), img[i].d.format = "r8", "D2")

(***************************************************************************)
(* Operations.                                                             *)
(***************************************************************************)
Levels(i) == (0 .. img[i].d.mips - 1) \X (0 .. img[i].d.layers - 1)
LevelRects(i, mip) == RectsOf(LevelExtent(img[i].d.width, mip), LevelExtent(img[i].d.height, mip))
Usable(i) == img[i].made /\ img[i].sub.ok
Kept(f, S) == [k \in DOMAIN f \ S |-> f[k]]
\* The memory of an image after an engine wrote pixels, or moved some.
Wrote(i, pixels) == mem' = [mem EXCEPT ![i] = pixels @@ @]
Moved(j, i, moves) ==
  LET known == {o \in DOMAIN moves : moves[o] \in DOMAIN mem[i]}
  IN mem' = [mem EXCEPT ![j] = [o \in known |-> mem[i][moves[o]]] @@ Kept(@, DOMAIN moves)]
Key(mip, layer, x, y) == <<mip, layer, x, y>>
Value(x, y) == <<writes', x, y>>
\* The client's view of a write of a rectangle, and of a copy between two.
Painted(i, mip, layer, r) ==
  want' = [want EXCEPT ![i] =
             [k \in {Key(mip, layer, p[1], p[2]) : p \in Pixels(r)} |-> Value(k[3] - r.x, k[4] - r.y)] @@ @]
Copied(i, ms, rs, j, md, rd, fx, fy) ==
  LET From(k) == Key(ms, 0, rs.x + (IF fx THEN rs.w - 1 - (k[3] - rd.x) ELSE k[3] - rd.x),
                     rs.y + (IF fy THEN rs.h - 1 - (k[4] - rd.y) ELSE k[4] - rd.y))
      keys == {Key(md, 0, p[1], p[2]) : p \in Pixels(rd)}
      known == {k \in keys : From(k) \in DOMAIN want[i]}
  IN want' = [want EXCEPT ![j] = [k \in known |-> want[i][From(k)]] @@ Kept(@, keys)]
Answer(v) == verdict' = v
Refused(v) == Answer(v) /\ UNCHANGED <<mem, want>>
Step == writes < MaxWrites /\ writes' = writes + 1 /\ UNCHANGED <<device, img>>

\* RawImage::create_logical.
Create(i, d) ==
  /\ img[i] = Absent /\ writes = 0 /\ \A k \in Slots : k < i => img[k] # Absent
  /\ d.mips > 1 \/ d.layers > 1 \/ (d.format = "depth" /\ Has(d, "sampled")) => device.extended
  /\ d.format = "depth" => device.depth
  /\ img' = [img EXCEPT ![i] = Created(d)]
  /\ Answer("done") /\ UNCHANGED <<device, mem, want, writes>>

\* prepare_upload, then its native command or its transfers.
Upload(i, mip, layer, r, pad) ==
  LET f == img[i].d.format
      stride == r.w * color_bytes_per_pixel(f) + pad
      source == [c \in 0 .. r.w - 1, k \in 0 .. r.h - 1 |-> Pixel(Value(c, k), ClientBytes(f))]
      up == prepare_bgra_upload(f, r, stride, Rows(r, stride, color_bytes_per_pixel(f), source))
      pitch == align(4 * r.w, 32)
      staging == Rows(r, pitch, 4, [c \in 0 .. r.w - 1, k \in 0 .. r.h - 1 |->
                                      up.pixels[k * up.bytes_per_row + 4 * c]])
      command == [opcode |-> "upload", source |-> Buffer, destination |-> i, source_stride |-> pitch,
                  source_mip |-> 0, source_layer |-> 0, destination_mip |-> mip,
                  destination_layer |-> layer, source_rect |-> Rect(0, 0, r.w, r.h),
                  destination_rect |-> r, flip_x |-> FALSE, flip_y |-> FALSE]
      w == lower(command, encode_command(command, <<i>>, <<pitch * (r.h - 1) + 4 * r.w>>))
  IN /\ Usable(i) /\ f # "depth" /\ Has(img[i].d, "copy_dst") /\ Step
     /\ transfer(img[i].sub, mip, layer, r).ok
     /\ IF ~device.extended
        THEN Wrote(i, LegacyImageUpload(i, r, up)) /\ Painted(i, mip, layer, r) /\ Answer("done")
        ELSE IF w.ok /\ ~w.alias
             THEN /\ \E moves \in {copy(w)} : Wrote(i, [o \in DOMAIN moves |-> staging[moves[o]]])
                  /\ Painted(i, mip, layer, r) /\ Answer("done")
             ELSE Refused("kernel")

\* prepare_blit on an extended device.
physical_blit_compatible(f, g) ==
  \/ {f, g} \subseteq {"bgra", "rgba"}
  \/ f = g /\ f \in Narrow \cup Srgb
BlitCommand(i, ms, rs, j, md, rd, fx, fy) ==
  [opcode |-> "blit", source |-> i, destination |-> j, source_stride |-> 0, source_mip |-> ms,
   source_layer |-> 0, destination_mip |-> md, destination_layer |-> 0, source_rect |-> rs,
   destination_rect |-> rd, flip_x |-> fx, flip_y |-> fy]
Blit(i, ms, rs, j, md, rd, fx, fy) ==
  LET command == BlitCommand(i, ms, rs, j, md, rd, fx, fy)
      w == lower(command, encode_command(command, <<i, j>>, <<>>))
  IN /\ Usable(i) /\ Usable(j) /\ device.extended /\ Step
     /\ Has(img[i].d, "copy_src") /\ Has(img[j].d, "copy_dst")
     /\ physical_blit_compatible(img[i].d.format, img[j].d.format)
     /\ rs.w = rd.w /\ rs.h = rd.h
     /\ transfer(img[i].sub, ms, 0, rs).ok /\ transfer(img[j].sub, md, 0, rd).ok
     /\ IF ~w.ok THEN Refused("kernel")
        ELSE IF w.alias THEN Refused(IF i = j /\ ms = md THEN "alias" ELSE "kernel")
        ELSE /\ \E moves \in {copy(w)} : Moved(j, i, moves)
             /\ Copied(i, ms, rs, j, md, rd, fx, fy) /\ Answer("done")

\* prepare_legacy_copy, and the code generator's copy: record 3.
prepare_legacy_copy(i) ==
  [Surface(i) EXCEPT !.mode = LET k == img[i].sub.kind
                              IN IF ~k.tiled THEN 0 ELSE IF k.y = 4 THEN 64 ELSE 256 + 16 * k.y]
Copy(i, rs, j, rd, generated) ==
  LET src == IF generated THEN Surface(i) ELSE prepare_legacy_copy(i)
      dst == IF generated THEN Surface(j) ELSE prepare_legacy_copy(j)
      words == [dst |-> dst, src |-> src, c |-> BlitCommand(i, 0, rs, j, 0, rd, FALSE, FALSE)]
  IN /\ Usable(i) /\ Usable(j) /\ i # j /\ Step
     /\ Has(img[i].d, "copy_src") /\ Has(img[j].d, "copy_dst")
     /\ rs.w = rd.w /\ rs.h = rd.h
     /\ transfer(img[i].sub, 0, 0, rs).ok /\ transfer(img[j].sub, 0, 0, rd).ok
     /\ IF generated
        THEN require_target_surface(i, "copy_src") /\ require_target_surface(j, "copy_dst")
        ELSE /\ physical_blit_compatible(img[i].d.format, img[j].d.format)
             /\ ~device.extended /\ ~Chain(img[i].d) /\ ~Chain(img[j].d)
     /\ IF surface(j, dst, "dst") /\ surface(i, src, "src")
        THEN /\ \E moves \in {copy(words)} : Moved(j, i, moves)
             /\ Copied(i, 0, rs, j, 0, rd, FALSE, FALSE) /\ Answer("done")
        ELSE Refused("kernel")

\* A pass that clears its colour target, or its depth target.
Drawn(i, s, r) == [o \in {EngineOffset(s, p[1], p[2]) : p \in Pixels(r)} |->
                     LET p == CHOOSE q \in Pixels(r) : EngineOffset(s, q[1], q[2]) = o
                     IN Pixel(Value(p[1] - r.x, p[2] - r.y), Rendered(img[i].d.format))]
Clear(i, r) ==
  LET depth == img[i].d.format = "depth"
  IN /\ Usable(i) /\ Step
     /\ IF depth THEN require_depth_surface(i) ELSE require_target_surface(i, "attachment")
     /\ IF surface(i, Surface(i), IF depth THEN "depth" ELSE "target")
        THEN Wrote(i, Drawn(i, Surface(i), r)) /\ Painted(i, 0, 0, r) /\ Answer("done")
        ELSE Refused("kernel")
\* A programmable draw into a level of a layer.
Draw(i, mip, layer, r) ==
  LET view == programmable_image(i, mip, 1, layer, 1,
                                 IF img[i].d.format = "depth" THEN "depth" ELSE "target")
  IN /\ Usable(i) /\ device.extended /\ Has(img[i].d, "attachment") /\ Step
     /\ img[i].d.format \in {"bgra", "rgba", "depth"}
     /\ IF view.ok
        THEN Wrote(i, Drawn(i, view, r)) /\ Painted(i, mip, layer, r) /\ Answer("done")
        ELSE Refused("kernel")

ImageInit ==
  /\ device \in Devices /\ img = [i \in Slots |-> Absent] /\ writes = 0 /\ verdict = "done"
  /\ mem = [i \in Slots |-> <<>>] /\ want = [i \in Slots |-> <<>>]
ImageNext ==
  \/ \E i \in Slots : \E d \in Descriptors[i] : Create(i, d)
  \/ \E i \in Slots : Usable(i) /\ \E a \in Levels(i) : \E r \in LevelRects(i, a[1]) :
       \/ \E pad \in Paddings : Upload(i, a[1], a[2], r, pad)
       \/ Draw(i, a[1], a[2], r)
       \/ a = <<0, 0>> /\ Clear(i, r)
  \/ \E i, j \in Slots : /\ Usable(i) /\ Usable(j)
       /\ \/ \E ms \in 0 .. img[i].d.mips - 1, md \in 0 .. img[j].d.mips - 1 :
               \E rs \in LevelRects(i, ms), rd \in LevelRects(j, md), fx \in BOOLEAN, fy \in BOOLEAN :
                 Blit(i, ms, rs, j, md, rd, fx, fy)
          \/ \E rs \in LevelRects(i, 0), rd \in LevelRects(j, 0), g \in BOOLEAN : Copy(i, rs, j, rd, g)

(***************************************************************************)
(* Who reads a pixel: engines with a surface, textures, and the client     *)
(* that reads level zero of a plain image back.  (Of a chain it reads a    *)
(* copy, which is a Blit to another image.)                                *)
(***************************************************************************)
Surfaces(i, mip, layer) ==
  LET c == img[i].c
      all == Rect(0, 0, LevelExtent(c.width, mip), LevelExtent(c.height, mip))
  IN {ImageSide(i, u, mip, layer, all, img[i].layout.total_size) : u \in c.usage \cap {"src", "dst"}}
     \cup {programmable_image(i, mip, 1, layer, 1, u) : u \in c.usage \cap {"target", "depth"}}
     \cup {[ok |-> validate_image_layout(i)] @@ Surface(i) :
             n \in {0} \cap {mip} \cap {layer}}
Textures(i) ==
  LET c == img[i].c
      f == img[i].d.format
      View(layer, n) == [t |-> tic(programmable_image(i, 0, c.mips, layer, n, "sampled"), f),
                         layers |-> layer .. layer + n - 1]
  IN IF "sampled" \notin c.usage THEN {}
     ELSE (IF f \in Srgb THEN {} ELSE {View(0, c.layers)})
          \cup (IF f \in Srgb \/ c.cube THEN {} ELSE {View(k, 1) : k \in 0 .. c.layers - 1})
          \cup (IF c.layers > 1 THEN {} ELSE {[t |-> draw_tic(i), layers |-> {0}]})
Probes(w, h) == IF w * h <= 700 THEN Pixels(Rect(0, 0, w, h))
                ELSE UNION {Pixels(r) : r \in RectsOf(w, h)}

\* Every engine finds a pixel at one byte, inside the image, that no other pixel has.
Placed(i) ==
  LET l == img[i].sub
      Here(a) == Probes(l.levels[a[1]].width, l.levels[a[1]].height)
      At(a, p) == byte_offset(l, subresource(l, a[1], a[2]), 4 * p[1], p[2])
      Agrees(a) ==
        LET sub == subresource(l, a[1], a[2])
        IN /\ l.kind.tiled => sub.offset % (512 * 2 ^ sub.level.tile_y_log2) = 0
           /\ \A s \in Surfaces(i, a[1], a[2]) :
                s.ok /\ \A p \in Here(a) : EngineOffset(s, p[1], p[2]) = At(a, p)
           /\ \A v \in Textures(i) :
                v.t.ok /\ (a[2] \in v.layers => \A p \in Here(a) :
                             TextureOffset(v.t, a[1], a[2] - Min(v.layers), p[1], p[2]) = At(a, p))
      bytes == UNION {{At(a, p) : p \in Here(a)} : a \in Levels(i)}
      count == MapThenSumSet(LAMBDA a : Cardinality(Here(a)), Levels(i))
  IN /\ \A a \in Levels(i) : Agrees(a)
     /\ Cardinality(bytes) = count /\ \A o \in bytes : o + 4 <= l.total_size

\* Every reader finds in a pixel what the client wrote to it last.
Contents(i) ==
  LET f == img[i].d.format
      client == ClientBytes(f)
      written == DOMAIN want[i]
      Readable(s, k) == Read(i, EngineOffset(s, k[3], k[4])) = Pixel(want[i][k], Rendered(f))
      Sampled(v, k) ==
        \E p \in {Read(i, TextureOffset(v.t, k[1], k[2] - Min(v.layers), k[3], k[4]))} :
          /\ p.v = want[i][k]
          /\ \A ch \in DOMAIN v.t.channels :
               p.bytes[v.t.channels[ch]] = (IF f = "r8" THEN "r" ELSE ch)
  IN /\ \A a \in {<<k[1], k[2]>> : k \in written} : \A s \in Surfaces(i, a[1], a[2]) :
          \A k \in written : <<k[1], k[2]>> = a => Readable(s, k)
     /\ \A v \in Textures(i) : \A k \in written : k[2] \in v.layers => Sampled(v, k)
     /\ f # "depth" /\ ~Chain(img[i].d) => \A k \in written :
          LET run == Rect(k[3] - (k[3] % 4), k[4], 1 + (k[3] % 4), 1)
              t == CHOOSE t \in Transferred(i, 0, 0, run) : t.x = k[3]
          IN convert_bgra_readback(f, Read(i, t.gpu)) = Pixel(want[i][k], client)

\* An image the kernel has laid out is one the backend and the code generator accept, the kernel
\* accepts every command the backend builds for it (but a blit of a level onto itself), and
\* whichever engine writes a pixel (executor.rs Context::transfer, graphics.rs copy and target,
\* programmable_graphics.rs), every engine that may read it (the texture unit at any level and
\* layer included) finds the last value, in the order of channels of the image's format.
PixelsKept ==
  /\ verdict # "kernel"
  /\ \A i \in Slots : img[i].made =>
       /\ img[i].sub.ok /\ validate_image_layout(i)
       /\ DOMAIN mem[i] \subseteq 0 .. img[i].layout.total_size - 4
       /\ writes = 0 /\ (\A k \in Slots : k > i => img[k] = Absent) => Placed(i)
       /\ Contents(i)
=============================================================================
