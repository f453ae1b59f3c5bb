\* Every text of up to ten bytes, small pages, a preview of seven bytes.
SPECIFICATION Spec
CONSTANTS
  MaxSize = 10
  Limits = {4, 6}
  PreviewLimit = 7
  Headers = {0, 1}
  Marker = 1
INVARIANT PagesJoin
INVARIANT PageIsText
INVARIANT PreviewIsHonest
