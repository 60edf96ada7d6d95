-------------------------- MODULE MCImageDataSave --------------------------
\* Sizes of the frames for ImageDataSave: a record with pictures takes two bytes.
EXTENDS ImageDataSave

MCFrameBytes == [k \in Kinds |-> IF k = "sick" THEN 2 ELSE 1]

=============================================================================
