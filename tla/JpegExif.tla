------------------------------ MODULE JpegExif ------------------------------
(***************************************************************************)
(* libcamera/V4L2JpegEncoder.cpp: where the tags of a picture go in its    *)
(* EXIF data (ExifIfd, buildExif).  A directory (IFD) has one entry of 12  *)
(* bytes per tag, and behind the entries the values that do not fit in     *)
(* them.  What is written is kept as cells: a place, a length and the tag  *)
(* it is about, in the order of the writes; a value that is a pointer, or  *)
(* stands elsewhere, has its offset from the TIFF header.                  *)
(***************************************************************************)
EXTENDS Naturals, Sequences

EXIF_SIZE == 32 * 1024
TiffHeader == 2 + 2 + 6         \* behind the marker, the size and "Exif"
FirstIfd == TiffHeader + 8
NoPointer == 0

Tag(name, length) == [of |-> name, len |-> length, points |-> NoPointer]
Pointer(name, address) == [of |-> name, len |-> 4, points |-> address - TiffHeader]
Cell(tag, part, at, length, points) ==
    [of |-> tag, part |-> part, at |-> at, len |-> length, points |-> points]

-----------------------------------------------------------------------------
(* ExifIfd *)

\* The constructor clears the link to the next directory, two bytes too early:
\* the last entry is written over it.
ExifIfd(start, space) ==
    [start |-> start, space |-> space, base |-> start - TiffHeader, tags |-> 0,
     data |-> start + 2 + 12 * space + 4,
     cells |-> <<Cell("ifd", "space", start, 2, NoPointer),
                 Cell("ifd", "link", start + 12 * space, 4, NoPointer)>>]

\* Mutant: data is not moved behind a value.
Beyond_value(ifd, tag) == ifd.data

\* A value of up to four bytes is in the entry.
Beyond(ifd, tag) == IF tag.len > 4 THEN ifd.data + tag.len ELSE ifd.data

\* The entry of a tag and, behind the directory, a value that does not fit into it.
Entries(ifd, tag) ==
    LET at == ifd.start + 2 + 12 * ifd.tags
    IN  IF tag.len > 4
        THEN <<Cell(tag.of, "entry", at, 12, ifd.base + (ifd.data - ifd.start)),
               Cell(tag.of, "value", ifd.data, tag.len, NoPointer)>>
        ELSE <<Cell(tag.of, "entry", at, 12, tag.points)>>

\* A full directory ignores the tag.
push(ifd, tag) ==
    IF ifd.tags >= ifd.space THEN ifd
    ELSE [start |-> ifd.start, space |-> ifd.space, base |-> ifd.base, tags |-> ifd.tags + 1,
          data |-> Beyond(ifd, tag), cells |-> ifd.cells \o Entries(ifd, tag)]

\* The tags are pushed one after the other.
Filled(ifd, tags) ==
    LET after[n \in 0..Len(tags)] == IF n = 0 THEN ifd ELSE push(after[n - 1], tags[n])
    IN  after[Len(tags)]

link(ifd, address) ==
    Cell("ifd", "next", ifd.start + 12 * ifd.space, 4, address - TiffHeader)

-----------------------------------------------------------------------------
(* The tags; "length" has those of the strings that are properties of the  *)
(* device.  A comment ends at its first zero.                              *)

exifIfd0TagMap(length) ==
    <<Tag("MAKE", length.maker), Tag("MODEL", length.model), Tag("ORIENTATION", 2),
      Tag("SOFTWARE", length.software), Tag("DATE_TIME", 19), Tag("YCBCR_POSITIONING", 2)>>

exifIfdExifTagMap ==
    <<Tag("EXPOSURE_TIME", 8), Tag("FNUMBER", 8), Tag("EXPOSURE_PROGRAM", 2),
      Tag("ISO_SPEED_RATING", 2), Tag("EXIF_VERSION", 4), Tag("DATE_TIME_ORG", 19),
      Tag("DATE_TIME_DIGITIZE", 19), Tag("SHUTTER_SPEED", 8), Tag("APERTURE", 8),
      Tag("BRIGHTNESS", 8), Tag("EXPOSURE_BIAS", 8), Tag("MAX_APERTURE", 8),
      Tag("METERING_MODE", 2), Tag("FLASH", 2), Tag("FOCAL_LENGTH", 8),
      Tag("USER_COMMENT", 5), Tag("COLOR_SPACE", 2), Tag("PIXEL_X_DIMENSION", 4),
      Tag("PIXEL_Y_DIMENSION", 4), Tag("EXPOSURE_MODE", 2), Tag("WHITE_BALANCE", 2),
      Tag("SCENE_CAPTURE_TYPE", 2)>>

gpsTags ==
    <<Tag("GPS_VERSION_ID", 4), Tag("GPS_LATITUDE_REF", 2), Tag("GPS_LATITUDE", 24),
      Tag("GPS_LONGITUDE_REF", 2), Tag("GPS_LONGITUDE", 24), Tag("GPS_ALTITUDE_REF", 1),
      Tag("GPS_ALTITUDE", 8), Tag("GPS_TIMESTAMP", 24), Tag("GPS_DATESTAMP", 11)>>

\* The tags of exifIfd1TagMap go to the directory of the picture, which is full.
ifd1Tags(address) ==
    <<Tag("THUMBNAIL_WIDTH", 4), Tag("THUMBNAIL_HEIGHT", 4), Tag("COMPRESSION_SCHEME", 2),
      Pointer("JPEG_INTERCHANGE_FORMAT", address), Tag("JPEG_INTERCHANGE_FORMAT_LEN", 4)>>

-----------------------------------------------------------------------------

\* Mutant: no room for the pointer to the GPS tags.
Ifd0Space_short(gps) == 6 + 3

Ifd0Space(gps) == 6 + 3 + IF gps THEN 1 ELSE 0

\* buildExif: the size of the data, and what was written.  A thumbnail has size
\* 0, as every Buffer has.
buildExif(gps, thumbnail, length) ==
    LET Small == Filled(ExifIfd(FirstIfd, Ifd0Space(gps)), exifIfd0TagMap(length))
        Picture == Filled(ExifIfd(Small.data, 22), exifIfdExifTagMap)
        Gps == Filled(ExifIfd(Picture.data, 9), gpsTags)
        Behind == IF gps THEN Gps.data ELSE Picture.data
        Pointers ==
            <<Tag("IMAGE_WIDTH", 4), Tag("IMAGE_HEIGHT", 4),
              Pointer("EXIF_IFD_POINTER", Small.data)>>
            \o IF gps THEN <<Pointer("GPS_IFD_POINTER", Picture.data)>> ELSE <<>>
        Ifd0 == Filled(Small, Pointers)
        New == ExifIfd(Behind, 4 + 5)
        Ifd1 == Filled(New, ifd1Tags(New.data))
        Cells == Ifd0.cells \o Picture.cells \o IF gps THEN Gps.cells ELSE <<>>
    IN  IF thumbnail
        THEN [size |-> Ifd1.data, cells |-> Cells \o <<link(Ifd0, Behind)>> \o Ifd1.cells]
        ELSE [size |-> Behind, cells |-> Cells]

-----------------------------------------------------------------------------
(* What a reader of the picture finds *)

\* The tags that a picture without a thumbnail has.
TagsOf(gps) ==
    {"MAKE", "MODEL", "ORIENTATION", "SOFTWARE", "DATE_TIME", "YCBCR_POSITIONING",
     "IMAGE_WIDTH", "IMAGE_HEIGHT", "EXIF_IFD_POINTER"}
    \cup {exifIfdExifTagMap[i].of : i \in DOMAIN exifIfdExifTagMap}
    \cup IF gps THEN {"GPS_IFD_POINTER"} \cup {gpsTags[i].of : i \in DOMAIN gpsTags} ELSE {}

Apart(a, b) == a.at + a.len <= b.at \/ b.at + b.len <= a.at

\* The cell with this number is what it was written as.
Untouched(cells, i) == \A j \in DOMAIN cells : j > i => Apart(cells[i], cells[j])

\* Where a directory starts: its number of entries is there.
IfdAt(cells, points) ==
    \E i \in DOMAIN cells :
        cells[i].part = "space" /\ cells[i].at = points + TiffHeader /\ Untouched(cells, i)

\* One entry of the tag, whose value is in it or where it points to.
Found(exif, tag) ==
    \E i \in DOMAIN exif.cells :
        LET entry == exif.cells[i] IN
        /\ entry.of = tag /\ entry.part = "entry" /\ Untouched(exif.cells, i)
        /\ \A j \in DOMAIN exif.cells :
               LET value == exif.cells[j] IN
               (value.of = tag /\ value.part = "value") =>
                   /\ value.at = entry.points + TiffHeader
                   /\ Untouched(exif.cells, j)
        /\ tag \in {"EXIF_IFD_POINTER", "GPS_IFD_POINTER"} => IfdAt(exif.cells, entry.points)

Whole(exif) == \A i \in DOMAIN exif.cells : exif.cells[i].at + exif.cells[i].len <= exif.size
=============================================================================
