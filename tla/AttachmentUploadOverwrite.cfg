SPECIFICATION AttachmentSpec
CONSTANTS
  a1 = a1
  a2 = a2
  u1 = u1
  u2 = u2
  r1 = r1
  d1 = d1
  w1 = w1
  good = good
  other = other
  alien = alien
  wrong = wrong
  Attachments = {a1}
  Contents = {good, other, alien, wrong}
  Contradicted = {alien}
  Mismatched = {wrong}
  NoContent = NoContent
  Uploaders = {u1, u2}
  Readers = {r1}
  Deleters = {d1}
  Writers = {w1}
  LostCommit = FALSE
INVARIANT ReferencedContentKept
\* Everything stops when the last Attachment has been deleted.
CHECK_DEADLOCK FALSE
