\* lock_free_stack of chapter_7.h: live nodes get on _to_be_deleted.
SPECIFICATION Spec
CONSTANTS
  a = a
  b = b
  n1 = n1
  n2 = n2
  n3 = n3
  Thread <- Threads
  Node <- Nodes
  Null = Null
SYMMETRY Symmetry
INVARIANT OnlyRemovedPending
\* A pop that follows a null old_head goes no further.
CHECK_DEADLOCK FALSE
