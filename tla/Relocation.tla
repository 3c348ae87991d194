----------------------------- MODULE Relocation -----------------------------
(***************************************************************************)
(* How a poured file is rewritten for the live prefix                      *)
(* (zapbrew-pour/src/relocate.rs): text files, the interpreter and the     *)
(* runpath of an ELF image, the load-command strings of a Mach-O image,    *)
(* what is left in NUL-padded slots, and the symlinks of the keg.          *)
(*                                                                         *)
(* A file is a sequence of cells.  A cell is a character or a name within  *)
(* a path, the NUL, or a placeholder; a program header is one cell, and    *)
(* the entries of the headers and of the dynamic section are kept beside   *)
(* the cells.  Files other than 64-bit ELF and thin Mach-O are "other".    *)
(***************************************************************************)
EXTENDS Integers, FiniteSets, SequencesExt, Options

CONSTANTS
    NewAlign,      \* alignment of a segment that is added (0x1000 in the source)
    DefaultAlign,  \* alignment in a segment that states none (16)
    MaxAlign       \* MAX_SEGMENT_ALIGN

ASSUME RelocationAssumption == {NewAlign, DefaultAlign, MaxAlign} \subseteq Nat \ {0}

Nul == "0"
Padding(n) == [i \in 1 .. n |-> Nul]

\* cstr: what comes before the first NUL.
CStr(s) ==
    LET nuls == {i \in DOMAIN s : s[i] = Nul}
    IN  IF nuls = {} THEN s ELSE SubSeq(s, 1, Min(nuls) - 1)

\* file offsets count from 0
Slice(cells, from, to) == SubSeq(cells, from + 1, to)
Overwrite(cells, from, s) ==
    [i \in DOMAIN cells |-> IF i \in from + 1 .. from + Len(s) THEN s[i - from] ELSE cells[i]]

\* round_up
RoundUp(value, align) == ((value + align - 1) \div align) * align

-----------------------------------------------------------------------------
(* Placeholders.  An environment has a prefix, a cellar and a platform.    *)

Java(env) ==
    env.prefix \o (IF env.platform = "macos" THEN <<"opt", "openjdk", "Home">>
                                             ELSE <<"opt", "openjdk">>)

\* placeholder_subs: no key is a part of another, so the order does not show.
PlaceholderSubs(env) ==
    [key \in {"@@PREFIX@@", "@@CELLAR@@", "@@JAVA@@"} |->
        CASE key = "@@PREFIX@@" -> env.prefix
          [] key = "@@CELLAR@@" -> env.cellar
          [] OTHER -> Java(env)]

\* replace_all
Replaced(env, s) ==
    FlattenSeq([i \in DOMAIN s |->
        IF s[i] \in DOMAIN PlaceholderSubs(env) THEN PlaceholderSubs(env)[s[i]] ELSE <<s[i]>>])

\* nul_pad_span, on the cells from..to-1 of a span between two NULs.
SlotFits(env, cells, slot) ==
    Len(Replaced(env, Slice(cells, slot[1], slot[2]))) <= slot[2] - slot[1]

\* The slots of binary_nul_pad: maximal runs without a NUL, outside the protected ranges.
Slots(cells, protected) ==
    LET Owned(i) == \E r \in protected : i >= r[1] /\ i < r[2]
        Free(i) == i >= 0 /\ i < Len(cells) /\ cells[i + 1] # Nul /\ ~Owned(i)
        Starts == {i \in 0 .. Len(cells) - 1 : Free(i) /\ ~Free(i - 1)}
        Ends(i) == Min({j \in i .. Len(cells) : ~Free(j)})
    IN  {<<i, Ends(i)>> : i \in Starts}

\* binary_nul_pad: None when a replacement is larger than its slot.
BinaryNulPad(env, cells, protected) ==
    LET slots == Slots(cells, protected)
        Pad(slot, out) ==
            LET r == Replaced(env, Slice(cells, slot[1], slot[2]))
            IN  Overwrite(out, slot[1], r \o Padding(slot[2] - slot[1] - Len(r)))
    IN  IF \E slot \in slots : ~SlotFits(env, cells, slot) THEN None
        ELSE Some(FoldSet(Pad, cells, slots))

-----------------------------------------------------------------------------
(* ELF.  An image has its cells, program headers, the offset of their      *)
(* table, the entries of its dynamic section, and section headers.         *)

Headers(img, type) == {i \in DOMAIN img.headers : img.headers[i].type = type}
FirstHeader(img, type) == img.headers[Min(Headers(img, type))]
Loads(img) == {img.headers[i] : i \in Headers(img, "LOAD")}

\* vaddr_to_offset, through the first PT_LOAD that covers the address.
VaddrToOffset(img, vaddr) ==
    LET covering == {i \in Headers(img, "LOAD") :
                        LET h == img.headers[i] IN vaddr >= h.vaddr /\ vaddr < h.vaddr + h.filesz}
        h == img.headers[Min(covering)]
    IN  IF covering = {} THEN None ELSE Some(h.offset + vaddr - h.vaddr)

\* The value of the last entry with this tag before DT_NULL, or None.
Dynamic(img, tag) ==
    LET nulls == {i \in DOMAIN img.dynamic : img.dynamic[i][1] = "NULL"}
        found == {i \in DOMAIN img.dynamic :
                    img.dynamic[i][1] = tag /\ \A n \in nulls : i < n}
    IN  IF found = {} THEN None ELSE Some(Max(found))
DynamicValue(img, tag) == img.dynamic[Dynamic(img, tag)[1]][2]

\* DT_RUNPATH wins over DT_RPATH.
RunpathTag(img) == IF Dynamic(img, "RUNPATH") # None THEN "RUNPATH" ELSE "RPATH"

\* elf_linkage_regions
ElfLinkageRegions(img) ==
    LET interp == FirstHeader(img, "INTERP")
        table == VaddrToOffset(img, DynamicValue(img, "STRTAB"))
    IN  (IF Headers(img, "INTERP") = {} THEN {}
         ELSE {<<interp.offset, interp.offset + interp.filesz>>})
        \cup (IF \/ Headers(img, "DYNAMIC") = {} \/ Dynamic(img, "STRTAB") = None
                 \/ Dynamic(img, "STRSZ") = None
              THEN {}
              ELSE {<<t, t + DynamicValue(img, "STRSZ")>> :
                        t \in {table[i] : i \in DOMAIN table}})

\* append_new_load: a segment of its own, and the table of headers moved behind it.
AppendNewLoad(img, payload) ==
    LET ends == {h.vaddr + h.memsz : h \in Loads(img)}
        vaddr == RoundUp(Max(ends), NewAlign)
        offset == RoundUp(Len(img.cells), NewAlign)
        padded == img.cells \o Padding(offset - Len(img.cells)) \o payload
        header == [type |-> "LOAD", offset |-> offset, vaddr |-> vaddr,
                   filesz |-> Len(payload), memsz |-> Len(payload), align |-> NewAlign]
    IN  [image |-> [img EXCEPT
            !.cells = padded \o [i \in 1 .. Len(img.headers) + 1 |-> "header"],
            !.headers = Append(@, header),
            !.phoff = Len(padded)],
         offset |-> offset, vaddr |-> vaddr]

\* Mutant: a segment with zero-filled memory behind it grows in place, too.
GrowsOverBss(img, last) == last.offset + last.filesz = Len(img.cells)

\* Whether the last segment can grow where it is.
GrowsInPlace(img, last) ==
    last.memsz = last.filesz /\ last.offset + last.filesz = Len(img.cells)

\* append_into_last_load: None, or the image and where the payload is.
AppendIntoLastLoad(img, payload) ==
    LET indices == Headers(img, "LOAD")
        highest == Max({h.vaddr : h \in Loads(img)})
        i == Max({j \in indices : img.headers[j].vaddr = highest})
        last == img.headers[i]
        align == IF last.align > 1 THEN last.align ELSE DefaultAlign
        offset == RoundUp(Len(img.cells), align)
        grown == img.cells \o Padding(offset - Len(img.cells)) \o payload
    IN  IF indices = {} THEN None
        ELSE IF ~GrowsInPlace(img, last) THEN Some(AppendNewLoad(img, payload))
        ELSE IF align > MaxAlign THEN None
        ELSE Some([image |-> [img EXCEPT
                        !.cells = grown,
                        !.headers[i].filesz = Len(grown) - last.offset,
                        !.headers[i].memsz = Len(grown) - last.offset],
                   offset |-> offset, vaddr |-> last.vaddr + offset - last.offset])

\* The interpreter rewrite_interp asks for.
DesiredInterp(env, current) ==
    IF env.ldSo THEN env.prefix \o <<"lib", "ld.so">> ELSE Replaced(env, current)

\* rewrite_interp; None is an error.
RewriteInterp(env, img) ==
    LET h == FirstHeader(img, "INTERP")
        current == CStr(Slice(img.cells, h.offset, h.offset + h.filesz))
        desired == DesiredInterp(env, current)
        appended == AppendIntoLastLoad(img, Append(desired, Nul))
        i == Min(Headers(img, "INTERP"))
        Repointed(a) == [a.image EXCEPT !.headers[i] =
            [@ EXCEPT !.offset = a.offset, !.vaddr = a.vaddr,
                      !.filesz = Len(desired) + 1, !.memsz = Len(desired) + 1]]
    IN  CASE Headers(img, "INTERP") = {} -> Some(img)
          [] OTHER ->
             IF h.offset + h.filesz > Len(img.cells) THEN None
             ELSE IF desired = current THEN Some(img)
             ELSE IF Len(desired) < h.filesz
             THEN Some([img EXCEPT !.cells =
                    Overwrite(@, h.offset, desired \o Padding(h.filesz - Len(desired)))])
             ELSE IF appended = None THEN None ELSE Some(Repointed(appended[1]))

\* str::split(':')
Segments(s) ==
    FoldLeft(LAMBDA acc, c : IF c = ":" THEN Append(acc, <<>>)
                             ELSE [acc EXCEPT ![Len(acc)] = Append(@, c)], <<<<>>>>, s)

\* rewrite_gcc_lib: the last two names are gcc and a number.
RewriteGccLib(segment) ==
    IF /\ Len(segment) >= 3 /\ segment[Len(segment)] \in {"9", "12"}
       /\ segment[Len(segment) - 1] = "gcc" /\ segment[Len(segment) - 2] = "lib"
    THEN Append(Front(segment), "current") ELSE segment

\* compute_runpath
ComputeRunpath(env, current) ==
    LET Kept(s) == /\ s # <<>>
                   /\ IsPrefix(env.prefix, s) \/ IsPrefix(env.cellar, s) \/ s[1] = "$ORIGIN"
        Mapped(s) == IF env.gcc THEN s ELSE RewriteGccLib(s)
        lib == Append(env.prefix, "lib")
        Add(acc, s) == IF Contains(acc, s) THEN acc ELSE Append(acc, s)
        kept == FoldLeft(LAMBDA acc, s : IF Kept(s) THEN Add(acc, Mapped(s)) ELSE acc,
                         <<>>, Segments(current))
        all == Add(kept, lib)
    IN  FoldLeft(LAMBDA acc, s : IF acc = <<>> THEN s ELSE acc \o <<":">> \o s, <<>>, all)

\* update_dynstr_section: None when an entry of the table is too narrow or
\* outside the file, and then nothing is written.
UpdateDynstr(sections, vaddr, new) ==
    IF \E i \in DOMAIN sections : ~sections[i].inside THEN None
    ELSE Some([i \in DOMAIN sections |-> IF sections[i].addr = vaddr THEN new ELSE sections[i]])

\* The old table, at the start of the new one: offsets into it stay valid.
TableCopy(table) == table

\* rewrite_runpath; None is an error.
RewriteRunpath(env, original, img) ==
    LET tag == RunpathTag(img)
        at == Dynamic(img, tag)
        table == VaddrToOffset(original, DynamicValue(img, "STRTAB"))
        size == DynamicValue(img, "STRSZ")
        start == table[1] + DynamicValue(img, tag)
        tail == Slice(original.cells, start, table[1] + size)
        runpath == CStr(tail)
        desired == ComputeRunpath(env, Replaced(env, runpath))
        copy == TableCopy(Slice(img.cells, table[1], table[1] + size)) \o Append(desired, Nul)
        appended == AppendIntoLastLoad(img, copy)
        Repointed(a) ==
            LET dynamic == [a.image.dynamic EXCEPT
                    ![Dynamic(img, "STRTAB")[1]][2] = a.vaddr,
                    ![Dynamic(img, "STRSZ")[1]][2] = Len(copy),
                    ![at[1]][2] = Len(copy) - Len(desired) - 1]
                sections == UpdateDynstr(a.image.sections, DynamicValue(img, "STRTAB"),
                    [addr |-> a.vaddr, offset |-> a.offset, size |-> Len(copy), inside |-> TRUE])
            IN  IF sections = None THEN None
                ELSE Some([a.image EXCEPT !.dynamic = dynamic, !.sections = sections[1]])
    IN  IF Headers(img, "DYNAMIC") = {} \/ at = None \/ Dynamic(img, "STRTAB") = None
           \/ table = None
        THEN Some(img)
        ELSE IF \/ Dynamic(img, "STRSZ") = None \/ table[1] + size > Len(original.cells)
                \/ DynamicValue(img, tag) >= size \/ ~Contains(tail, Nul)
        THEN None
        ELSE IF desired = runpath THEN Some(img)
        ELSE IF Len(desired) <= Len(runpath)
        THEN Some([img EXCEPT !.cells =
                Overwrite(@, start, desired \o Padding(Len(runpath) + 1 - Len(desired)))])
        ELSE IF appended = None THEN None ELSE Repointed(appended[1])

\* elf_relocate
ElfRelocate(env, img) ==
    LET interp == RewriteInterp(env, img)
    IN  IF interp = None THEN None ELSE RewriteRunpath(env, img, interp[1])

-----------------------------------------------------------------------------
(* Mach-O.  An image has its cells and the slots of its load commands:     *)
(* <<start, end>>, or "malformed".                                         *)

\* rewrite_cellar_to_opt
RewriteCellarToOpt(env, path) ==
    LET rest == SubSeq(path, Len(env.cellar) + 1, Len(path))
    IN  IF IsPrefix(env.cellar, path) /\ Len(rest) >= 2
        THEN Some(env.prefix \o <<"opt", rest[1]>> \o SubSeq(rest, 3, Len(rest)))
        ELSE None

\* What macho_relocate makes of the string of a slot.
MachoDesired(env, current) ==
    LET replaced == Replaced(env, current)
        opt == RewriteCellarToOpt(env, replaced)
    IN  IF opt = None THEN replaced ELSE opt[1]

\* macho_relocate
MachoRelocate(env, img) ==
    LET Current(slot) == CStr(Slice(img.cells, slot[1], slot[2]))
        Desired(slot) == MachoDesired(env, Current(slot))
        Put(slot, cells) ==
            Overwrite(cells, slot[1], Desired(slot) \o Padding(slot[2] - slot[1] - Len(Desired(slot))))
        changed == {slot \in img.slots : Desired(slot) # Current(slot)}
    IN  IF \E slot \in img.slots : slot[1] >= slot[2] \/ slot[2] > Len(img.cells) THEN None
        ELSE IF \E slot \in changed : Len(Desired(slot)) >= slot[2] - slot[1] THEN None
        ELSE Some([img EXCEPT !.cells = FoldSet(Put, @, changed)])

-----------------------------------------------------------------------------
(* One file, and the symlinks of a keg.                                    *)

\* The regions the structured pass owns.
Owned(img, structured) ==
    (CASE img.format = "elf" -> ElfLinkageRegions(img)
       [] img.format = "macho" -> img.slots
       [] OTHER -> {})
    \cup {r \in {<<Len(img.cells), Len(structured.cells)>>} : r[1] < r[2]}

\* relocate_binary: None is an error.  The image of glibc is left to the generic pass.
RelocateBinary(env, img) ==
    LET structured ==
            CASE img.format = "elf" /\ ~env.glibc -> ElfRelocate(env, img)
              [] img.format = "macho" -> MachoRelocate(env, img)
              [] OTHER -> Some(img)
        owned == IF img.format = "elf" /\ env.glibc THEN {} ELSE Owned(img, structured[1])
        padded == BinaryNulPad(env, structured[1].cells, owned)
    IN  IF structured = None THEN None
        ELSE IF padded = None THEN None
        ELSE Some([structured[1] EXCEPT !.cells = padded[1]])

\* plan_file: text has no NUL in its first part (or is a libtool archive), and may grow.
PlanFile(env, img) ==
    IF img.text THEN Some([img EXCEPT !.cells = Replaced(env, @)])
    ELSE RelocateBinary(env, img)

\* Whether relocate has anything to do with a bottle.
SkipsRelocation(env, bottle) ==
    bottle.cellar = ":any_skip_relocation" /\ (env.platform = "macos" \/ bottle.recent)

\* relative_path_from, for paths without a ".." of their own.
RelativePathFrom(from, to) ==
    LET common == Len(LongestCommonPrefix({from, to}))
        path == [i \in 1 .. Len(from) - common |-> ".."] \o SubSeq(to, common + 1, Len(to))
    IN  IF path = <<>> THEN <<".">> ELSE path

\* What a link found in the directory dir reads after relativeize_symlinks: a path with
\* "/" first when it is absolute.
RelativeTarget(env, dir, target) ==
    LET named == Replaced(env, target)
    IN  IF \/ named = <<>> \/ named[1] # "/"
           \/ ~IsPrefix(env.prefix, named) /\ ~IsPrefix(env.cellar, named)
        THEN target
        ELSE RelativePathFrom(dir, named)

\* Where a link in dir leads.
Lexical(dir, target) ==
    LET Step(at, name) == CASE name = ".." -> Front(at) [] name = "." -> at
                            [] OTHER -> Append(at, name)
    IN  IF target[1] = "/" THEN target ELSE FoldLeft(Step, dir, target)

-----------------------------------------------------------------------------
(* What a loader finds.                                                    *)

LoadOf(img, v) == CHOOSE h \in Loads(img) : v >= h.vaddr /\ v < h.vaddr + h.memsz
MappedAddresses(img) == UNION {h.vaddr .. h.vaddr + h.memsz - 1 : h \in Loads(img)}
Memory(img, v) ==
    LET h == LoadOf(img, v)
    IN  IF v - h.vaddr < h.filesz THEN img.cells[h.offset + v - h.vaddr + 1] ELSE Nul

StringAt(img, offset) == CStr(SubSeq(img.cells, offset + 1, Len(img.cells)))
Interp(img) == StringAt(img, FirstHeader(img, "INTERP").offset)
Table(img) == VaddrToOffset(img, DynamicValue(img, "STRTAB"))[1]
Runpath(img) == StringAt(img, Table(img) + DynamicValue(img, RunpathTag(img)))

\* Segments that can be mapped: within the file, congruent, and apart in memory.
Mappable(img) ==
    /\ \A h \in Loads(img) : /\ h.offset + h.filesz <= Len(img.cells)
                            /\ (h.vaddr - h.offset) % h.align = 0
    /\ \A i, j \in Headers(img, "LOAD") : i # j =>
            LET g == img.headers[i]
                h == img.headers[j]
            IN  g.vaddr + g.memsz <= h.vaddr \/ h.vaddr + h.memsz <= g.vaddr

\* An ELF image that is rewritten can be loaded: it has the interpreter and the runpath
\* that are wanted, every symbol name where the dynamic section says it is, and the rest of
\* its memory as it was, zero-filled memory included.  (elf_relocate, append_into_last_load,
\* append_new_load, binary_nul_pad.)
ImageLoads(env, img) ==
    \A new \in {r[1] : r \in {RelocateBinary(env, img)} \ {None}} :
        LET own == ElfLinkageRegions(img)
            rest == [img EXCEPT !.cells = BinaryNulPad(env, @, own)[1]]
            slot == DynamicValue(img, RunpathTag(img))
            names == {k \in 0 .. DynamicValue(img, "STRSZ") - 1 :
                        k \notin slot .. slot + Len(Runpath(img))}
        IN  /\ Mappable(new)
            /\ Interp(new) = DesiredInterp(env, Interp(img))
            /\ Runpath(new) = ComputeRunpath(env, Replaced(env, Runpath(img)))
            /\ \A k \in names : new.cells[Table(new) + k + 1] = img.cells[Table(img) + k + 1]
            /\ \A v \in MappedAddresses(img) :
                LET at == VaddrToOffset(img, v) IN
                \/ at # None /\ \E r \in own : at[1] >= r[1] /\ at[1] < r[2]
                \/ Memory(new, v) = Memory(rest, v)

\* The doc of append_into_last_load: a program-header table that is moved is covered by
\* the segment that is added.
HeadersCovered(env, img) ==
    \A new \in {r[1] : r \in {RelocateBinary(env, img)} \ {None}} :
        \E h \in Loads(new) :
            h.offset <= new.phoff /\ new.phoff + Len(new.headers) <= h.offset + h.filesz

\* A relative link leads, from where it was rewritten, to what the absolute one named.
\* (relative_path_from, relativeize_symlinks.)
RelativeLeads(env, dir, target) ==
    Lexical(dir, RelativeTarget(env, dir, target)) = Lexical(dir, Replaced(env, target))

\* A symlink of a poured keg leads, once the keg is where it belongs, to what the bottle
\* named: the file is rewritten in the stage, <rack>/.zapbrew-stage/<name>/<version>.
\* (relocate and safe_rename in InstallTransaction::apply.)
PromotedLeads(env, stage, keg, dir, target) ==
    Lexical(keg \o dir, RelativeTarget(env, stage \o dir, target))
        = Lexical(keg \o dir, Replaced(env, target))
=============================================================================
