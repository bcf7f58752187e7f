-------------------------- MODULE TextureOptimizer --------------------------
(***************************************************************************)
(* What the Texture optimizer decides and makes of one image, as pure      *)
(* functions: OptimizerBackend drives them.  An image is its metadata: the *)
(* length of its sides and mip chain, its format, whether it is a cubemap  *)
(* and whether its alpha is marked opaque.  Pixels are left out, and so is *)
(* the encoder, whose device changes the speed and not the metadata.       *)
(***************************************************************************)
EXTENDS Naturals, FiniteSetsExt

CONSTANTS
  Formats,
  Block,         \* the block-compressed formats
  NoAlpha,       \* the formats without an alpha channel
  Bgra,          \* B8G8R8A8, what a Texture too small to compress becomes
  Unpacked,      \* the format decompression yields
  MaxDoublings   \* bound on log2 of a side

ASSUME FormatsAssumption ==
  /\ Block \subseteq Formats /\ NoAlpha \subseteq Formats
  /\ {Bgra, Unpacked} \subseteq Formats \ Block
  /\ MaxDoublings \in Nat

TwoTo[k \in 0 .. MaxDoublings + 1] == IF k = 0 THEN 1 ELSE 2 * TwoTo[k - 1]

Sides == 1 .. TwoTo[MaxDoublings]

Images ==
  [w : Sides, h : Sides, mips : Nat, format : Formats, cube : BOOLEAN, opaque : BOOLEAN]

Targets == [format : Formats, unwanted : SUBSET Formats, compressInterface : BOOLEAN]

Off == [kind |-> "none", w |-> 0, h |-> 0]

(* The form refuses a ratio or a size of zero.                              *)
TextureChoices ==
  [necessary : BOOLEAN, compress : BOOLEAN, mipmaps : BOOLEAN,
   resize : {Off} \cup [kind : {"size", "ratio"}, w : Nat \ {0}, h : Nat \ {0}]]

NextPowerOfTwo(n) == TwoTo[Min({k \in 0 .. MaxDoublings : TwoTo[k] >= n})]

IsPowerOfTwo(image) ==
  image.w = NextPowerOfTwo(image.w) /\ image.h = NextPowerOfTwo(image.h)

(* Both sides are halved until one has reached its target.                 *)
Halvings(image, target) ==
  Min({k \in 0 .. MaxDoublings + 1 :
         ~(image.w \div TwoTo[k] > target.w /\ image.h \div TwoTo[k] > target.h)})

OptimalMips(w, h) ==
  1 + Max({k \in 0 .. MaxDoublings : w \div TwoTo[k] >= 1 \/ h \div TwoTo[k] >= 1})

InterfaceOkay(interface, profile) == profile.compressInterface \/ ~interface

IsIncompatible(image, profile) ==
  \/ image.format \in profile.unwanted
  \/ image.cube /\ image.format \notin Block /\ (image.opaque \/ image.format \in NoAlpha)
  \/ image.format \in Block /\ ~IsPowerOfTwo(image)

CanBeCompressed(image, interface, profile) ==
  /\ InterfaceOkay(interface, profile) /\ image.format \notin Block
  /\ image.w >= 4 /\ image.h >= 4 /\ IsPowerOfTwo(image)

CanHaveMipmaps(image, interface, profile) ==
  InterfaceOkay(interface, profile) /\ image.w >= 4 /\ image.h >= 4

WantsMipmaps(image, interface, profile, request) ==
  /\ request.mipmaps /\ image.mips # OptimalMips(image.w, image.h)
  /\ CanHaveMipmaps(image, interface, profile)

(* The choices of the user count only with Optimization; conversion forces *)
(* the necessary part.  A ratio divides the Texture's own sides, perhaps   *)
(* down to nothing.                                                        *)
TextureRequest(operations, textures, image) ==
  LET optimize == "optimization" \in operations
      resize == textures.resize
  IN [necessary |-> "conversion" \in operations \/ (optimize /\ textures.necessary),
      compress |-> optimize /\ textures.compress,
      mipmaps |-> optimize /\ textures.mipmaps,
      resize |-> optimize /\ resize # Off,
      target |-> IF resize.kind = "ratio"
                   THEN [w |-> image.w \div resize.w, h |-> image.h \div resize.h]
                   ELSE [w |-> resize.w, h |-> resize.h]]

Plan(image, variant, interface, profile, request) ==
  LET k == IF request.resize THEN Halvings(image, request.target) ELSE 0
  IN [w |-> image.w \div TwoTo[k], h |-> image.h \div TwoTo[k], resize |-> k > 0,
      compress |->
        \/ request.necessary /\ (IsIncompatible(image, profile) \/ variant = "convertible")
        \/ /\ request.compress /\ CanBeCompressed(image, interface, profile)
           /\ image.format # profile.format,
      mipmaps |-> WantsMipmaps(image, interface, profile, request)]

WouldChange(plan) == plan.resize \/ plan.compress \/ plan.mipmaps

-----------------------------------------------------------------------------
(* Applying a plan.  Each step returns the image; a step that fails ends   *)
(* the attempt and writes nothing (OptimizerBackend).                      *)

Decompressed(image) ==
  IF image.format \in Block THEN [image EXCEPT !.format = Unpacked] ELSE image

Resized(image, w, h) ==
  IF image.w <= w /\ image.h <= h THEN image
  ELSE [image EXCEPT !.w = NextPowerOfTwo(w), !.h = NextPowerOfTwo(h), !.mips = 1]

Mipmapped(image) ==
  IF image.w > 1 \/ image.h > 1 THEN [image EXCEPT !.mips = OptimalMips(image.w, image.h)]
  ELSE [image EXCEPT !.mips = 1]

(* A block format never replaces another; the format it has already is no  *)
(* change.                                                                 *)
Converted(image, format) ==
  IF format \in Block /\ image.format \in Block THEN image ELSE [image EXCEPT !.format = format]

(* Mutant: a Texture that was only resized or given mipmaps stays as it    *)
(* was unpacked.                                                           *)
LeftUnpacked(image, variant, interface, profile, request) ==
  LET plan == Plan(image, variant, interface, profile, request)
      open == Decompressed(image)
      sized == IF plan.resize THEN Resized(open, plan.w, plan.h) ELSE open
      mipped == IF WantsMipmaps(sized, interface, profile, request)
                  THEN Mipmapped(sized) ELSE sized
      target == IF plan.compress THEN profile.format ELSE sized.format
  IN IF ~WouldChange(plan) THEN [image |-> image, modified |-> FALSE]
     ELSE [image |-> Converted(mipped, target), modified |-> TRUE]

(* A Texture that is only resized or given mipmaps returns to its own      *)
(* format; one that cannot be compressed becomes B8G8R8A8.                 *)
Optimized(image, variant, interface, profile, request) ==
  LET plan == Plan(image, variant, interface, profile, request)
      open == Decompressed(image)
      sized == IF plan.resize THEN Resized(open, plan.w, plan.h) ELSE open
      mips == IF plan.resize THEN WantsMipmaps(sized, interface, profile, request)
              ELSE plan.mipmaps
      mipped == IF mips THEN Mipmapped(sized) ELSE sized
      target == IF ~CanBeCompressed(mipped, interface, profile) THEN Bgra
                ELSE IF plan.compress THEN profile.format ELSE image.format
      result == Converted(mipped, target)
  IN IF ~WouldChange(plan) THEN [image |-> image, modified |-> FALSE]
     ELSE [image |-> result,
           modified |-> \/ image.format \in Block \/ mips
                        \/ plan.resize
                        \/ result # mipped]
=============================================================================
