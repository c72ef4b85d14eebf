\* Uploads, edits, rescans and outsiders, over two paths.
SPECIFICATION Spec
CONSTANTS
  Names = {a, b}
  Blobs = {f1, f2}
  Ids = {i1, i2}
  Uploads = {u1}
  Editors = {e1}
  Outside = TRUE
  None = None
  MaxVersion = 1
SYMMETRY Alike
INVARIANT IndexIsSound
PROPERTY RowsOutliveDrive
